---- MODULE Spec2Model ----
(***************************************************************************)
(* Model of the normalization decision engine of wildebeest                *)
(* (src/wildebeest/wb_normalize.py): the character classification index,   *)
(* the mapping table store, the normalization passes, the flag-gated       *)
(* pipeline norm_clean_string with its statistics dictionary ht, and the   *)
(* step selection (build_norm_step_dict and the resolution loop of main).  *)
(*                                                                         *)
(* A string is a sequence of Unicode code points.  A classification vector *)
(* (a Python integer used as a bit vector) is the set of the positions of  *)
(* its 1-bits: 1 is {0}, 1 << 1 is {1}; x | y is the union, and x & y is   *)
(* non-zero iff the intersection is non-empty.                             *)
(***************************************************************************)
EXTENDS Integers, Sequences, FiniteSets, TLC

VARIABLES
    lv,          \* self.lv, the line vector left by the last set_lv
    look_alike,  \* the look-alike dictionaries of the instance
    ht,          \* the statistics / step dictionary handed to norm_clean_string
    sel,         \* the arguments and the outcome of the last step selection
    log,         \* the warnings logged so far
    op,          \* the operation performed last
    lang,        \* the language code of the last normalization call
    s_in,        \* the argument string of the last call on a string
    s_out,       \* the string that call returned
    run          \* the stages of the last norm_clean_string call, in order

vars == <<lv, look_alike, ht, sel, log, op, lang, s_in, s_out, run>>

(***************************************************************************)
(* Strings and the regular-expression substitutions of Python's re module. *)
(***************************************************************************)
InRange(c, lo, hi) == lo <= c /\ c <= hi

\* F(v), with v computed before F is applied to it
Then(v, F(_)) == CHOOSE y \in {F(x) : x \in {v}} : TRUE

\* ''.join(ss), halving the range lo..hi
Flatten(ss) ==
    LET RECURSIVE Join(_, _)
        Join(lo, hi) ==
            IF lo > hi THEN <<>>
            ELSE IF lo = hi THEN ss[lo]
            ELSE Join(lo, (lo + hi) \div 2) \o Join((lo + hi) \div 2 + 1, hi)
    IN  Join(1, Len(ss))

\* re.sub(r'[class]', repl, s) and s.replace(char, repl): every character of
\* the class is replaced on its own.
SubChars(s, InClass(_), Repl(_)) ==
    Flatten([i \in 1..Len(s) |-> IF InClass(s[i]) THEN Repl(s[i]) ELSE <<s[i]>>])

\* re.sub(pattern, repl, s) for a pattern matching one or more characters:
\* MatchLen(s, i) is the length of the match starting at position i (0 when
\* there is none); matches are taken left to right and do not overlap.
RECURSIVE Scan(_, _, _, _)
Scan(s, i, ml, rp) ==
    IF i > Len(s) THEN <<>>
    ELSE rp[i] \o Scan(s, i + (IF ml[i] > 0 THEN ml[i] ELSE 1), ml, rp)

ReSub(s, MatchLen(_, _), Repl(_)) ==
    LET ml == [i \in 1..Len(s) |-> MatchLen(s, i)]
        rp == [i \in 1..Len(s) |->
                 IF ml[i] > 0 THEN Repl(SubSeq(s, i, i + ml[i] - 1)) ELSE <<s[i]>>]
    IN  Scan(s, 1, ml, rp)

\* the literal `lit' occurs in s at position i
LitAt(s, i, lit) ==
    /\ i >= 1
    /\ i + Len(lit) - 1 <= Len(s)
    /\ SubSeq(s, i, i + Len(lit) - 1) = lit

\* s.replace(old, new) for a literal old of any length
StrReplace(s, old, new) ==
    ReSub(s, LAMBDA t, i : IF LitAt(t, i, old) THEN Len(old) ELSE 0, LAMBDA m : new)

HasChar(s, InClass(_)) == \E i \in 1..Len(s) : InClass(s[i])

(***************************************************************************)
(* __init__: the elementary bit vectors.  The constructor starts with      *)
(* bit_vector = 1, assigns it to char_is_deletable_control_character, sets *)
(* bit_vector = 1 again for char_is_zero_width_character and from then on  *)
(* shifts it left by one before each further flag.                         *)
(***************************************************************************)
Bit(n) == {n}

bit_vector ==
    [ char_is_deletable_control_character |-> Bit(0),
      char_is_zero_width_character |-> Bit(0),
      char_is_decomposable_ligature |-> Bit(1),
      char_is_decomposable_sign_symbol |-> Bit(2),
      char_is_decomposable_with_combining |-> Bit(3),
      char_is_composable_anchor_with_combining |-> Bit(4),
      char_is_composable_combining_diacritic |-> Bit(5),
      char_is_decomposable_arabic_punctuation |-> Bit(6),
      char_is_arabic_tatweel |-> Bit(7),
      char_is_decomposable_cjk_punctuation |-> Bit(8),
      char_is_decomposable_greek_punctuation |-> Bit(9),
      char_is_decomposable_misc_f_punctuation |-> Bit(10),
      char_is_decomposable_dash |-> Bit(11),
      char_is_decomposable_non_zero_space |-> Bit(12),
      char_is_decomposable_enclosure |-> Bit(13),
      char_is_decomposable_cjk |-> Bit(14),
      char_is_mappable_decimal_digit |-> Bit(15),
      char_is_font_small_vertical |-> Bit(16),
      char_is_core_compatibility |-> Bit(17),
      char_is_detachable_from_token |-> Bit(18),
      char_is_ampersand |-> Bit(19),
      char_is_semicolon |-> Bit(20),
      char_is_percent_sign |-> Bit(21),
      char_is_encoding_repair_anchor |-> Bit(22),
      char_is_100_plus_block_of_interest |-> Bit(23),
      char_is_latin |-> Bit(24),
      char_is_greek |-> Bit(25),
      char_is_cyrillic |-> Bit(26),
      char_is_hebrew |-> Bit(27),
      char_is_deletable_hebrew_diacritic |-> Bit(28),
      char_is_arabic |-> Bit(29),
      char_is_arabic_presentation_form |-> Bit(30),
      char_is_deletable_arabic_diacritic |-> Bit(31),
      char_is_mappable_in_arabic |-> Bit(32),
      char_is_mappable_in_farsi |-> Bit(33),
      char_is_mappable_in_pashto |-> Bit(34),
      char_is_georgian |-> Bit(35),
      char_is_thaana_plus |-> Bit(36),
      char_is_devanagari |-> Bit(37),
      char_is_bengali_plus |-> Bit(38),
      char_is_nukta |-> Bit(39),
      char_is_thai_plus |-> Bit(40),
      char_is_khmer_plus |-> Bit(41),
      char_is_lisu_plus |-> Bit(42),
      char_is_surrogate |-> Bit(43),
      char_is_fullwidth_or_halfwidth |-> Bit(44),
      char_is_mappable_hangul |-> Bit(45) ]

\* x & y, as a truth value
Overlaps(x, y) == x \cap y # {}

\* the names of the flag attributes
FlagNames == DOMAIN bit_vector

\* the value of the flag attribute of the given name
FlagValue(name) == bit_vector[name]

If(cond, names) == IF cond THEN names ELSE {}

(***************************************************************************)
(* range_init_char_type_vector_dict: the names of the flags a character    *)
(* gets from the hard-coded ranges.  Python's range(a, b) excludes b.      *)
(***************************************************************************)
PyRange(c, a, b) == a <= c /\ c < b

NuktaCodePoints ==
    { \h093C, \h09BC, \h0A3C, \h0ABC, \h0B3C, \h0CBC, \h1C37, \h110BA, \h11173,
      \h111CA, \h11236, \h112E9, \h1133C, \h11446, \h114C3, \h115C0, \h116B7,
      \h1183A, \h11943, \h11D42, \h1E94A }

RangeFlags(c) ==
    If(\/ PyRange(c, \h0000, \h0009) \/ PyRange(c, \h000B, \h000D)
       \/ PyRange(c, \h000E, \h0020) \/ c = \h007F
       \/ PyRange(c, \h0080, \h00A0) \/ PyRange(c, \hFE00, \hFE10)
       \/ PyRange(c, \hE0100, \hE01F0), {"char_is_deletable_control_character"})
    \cup If(PyRange(c, \h200B, \h2010) \/ c = \hFEFF, {"char_is_zero_width_character"})
    \cup If(c = \h0640, {"char_is_arabic_tatweel"})
    \cup If(PyRange(c, \hDC80, \hDD00), {"char_is_surrogate"})
    \cup If(c \in {\h0E33, \h0EB3, \h0EDC, \h0EDD, \h1E9B}, {"char_is_decomposable_ligature"})
    \cup If(\/ c = \h00AD \/ PyRange(c, \h2010, \h2016)
            \/ c \in {\h2212, \h2500, \h2501, \h2E3A, \h2E3B, \hFE31, \hFE32,
                      \hFE58, \hFE63, \hFF0D}, {"char_is_decomposable_dash"})
    \cup If(PyRange(c, \h2000, \h200B) \/ c \in {\h00A0, \h202F, \h205F, \h3000},
            {"char_is_decomposable_non_zero_space"})
    \cup If(\/ InRange(c, 48, 57)                       \* '0'..'9'
            \/ c \in {45, 95, 43, 42, 124, 37},         \* - _ + * | %
            {"char_is_detachable_from_token"})
    \cup If(c = 38, {"char_is_ampersand"})                  \* '&'
    \cup If(c = 59, {"char_is_semicolon"})                  \* ';'
    \cup If(c = 37, {"char_is_percent_sign"})               \* '%'
    \cup If(PyRange(c, \hFF01, \hFFEF), {"char_is_fullwidth_or_halfwidth"})
    \cup If(\/ PyRange(c, \h0041, \h005B) \/ PyRange(c, \h0061, \h007B)
            \/ PyRange(c, \h00C0, \h00D7) \/ PyRange(c, \h00D8, \h00F7)
            \/ PyRange(c, \h00F8, \h02B0) \/ PyRange(c, \h2C60, \h2080)
            \/ PyRange(c, \hA720, \hA800) \/ PyRange(c, \hAB30, \hAB70), {"char_is_latin"})
    \cup If(PyRange(c, \h0370, \h0400) \/ PyRange(c, \h1F00, \h2000), {"char_is_greek"})
    \cup If(\/ PyRange(c, \h0400, \h0530) \/ PyRange(c, \h1C80, \h1C90)
            \/ PyRange(c, \h2DE0, \h2E00) \/ PyRange(c, \hA640, \hA6A0), {"char_is_cyrillic"})
    \cup If(PyRange(c, \h0590, \h0600) \/ PyRange(c, \hFB1D, \hFB50), {"char_is_hebrew"})
    \cup If(PyRange(c, \h05B0, \h05BE) \/ c \in {\h05BF, \h05C1, \h05C2, \h05C7},
            {"char_is_deletable_hebrew_diacritic"})
    \cup If(\/ PyRange(c, \h0600, \h0700) \/ PyRange(c, \h0750, \h0780)
            \/ PyRange(c, \h08A0, \h0900), {"char_is_arabic"})
    \cup If(PyRange(c, \hFB50, \hFE00) \/ PyRange(c, \hFE70, \hFEFF),
            {"char_is_arabic", "char_is_arabic_presentation_form"})
    \cup If(PyRange(c, \h064B, \h0653), {"char_is_deletable_arabic_diacritic"})
    \cup If(c \in {\h06A9, \h06CC, \h0675, \h0676, \h0678, \h067C, \h0689, \h0693,
                   \h06AB, \h06BC, \h06CD}, {"char_is_mappable_in_arabic"})
    \cup If(c \in {\h064A, \h0649, \h06CD, \h0643, \h06AB, \h067C, \h0689, \h0693,
                   \h06BC}, {"char_is_mappable_in_farsi"})
    \cup If(c \in {\h0649, \h06CD, \h0643}, {"char_is_mappable_in_pashto"})
    \cup If(\/ PyRange(c, \h10A0, \h10FF) \/ PyRange(c, \h1C90, \h1CBF)
            \/ PyRange(c, \h2D00, \h2D2F), {"char_is_georgian"})
    \cup If(PyRange(c, \h0780, \h08A0), {"char_is_thaana_plus"})
    \cup If(PyRange(c, \h0900, \h0980) \/ PyRange(c, \hA8E0, \hA900), {"char_is_devanagari"})
    \cup If(PyRange(c, \h0980, \h0E00), {"char_is_bengali_plus"})
    \cup If(c \in NuktaCodePoints, {"char_is_nukta"})
    \cup If(c \in NuktaCodePoints /\ c >= \h10000, {"char_is_100_plus_block_of_interest"})
    \cup If(PyRange(c, \h0E00, \h1100), {"char_is_thai_plus"})
    \cup If(PyRange(c, \h1161, \h1176), {"char_is_mappable_hangul"})
    \cup If(\/ PyRange(c, \h1780, \h1AB0) \/ PyRange(c, \h1B00, \h1C80)
            \/ PyRange(c, \h1CC0, \h1CD0), {"char_is_khmer_plus"})
    \cup If(\/ PyRange(c, \hA4D0, \hA630) \/ PyRange(c, \hA6A0, \hA700)
            \/ PyRange(c, \hA800, \hA830) \/ PyRange(c, \hA840, \hA8E0)
            \/ PyRange(c, \hA900, \hA960) \/ PyRange(c, \hA980, \hA9E0)
            \/ PyRange(c, \hAA00, \hAA60) \/ PyRange(c, \hAA80, \hAB00), {"char_is_lisu_plus"})

(***************************************************************************)
(* The Mapping Table Store.  init_mapping_dict first enters the built-in   *)
(* surrogate mappings and then reads the nine table files in a fixed       *)
(* order; a later record for the same key replaces an earlier one.         *)
(***************************************************************************)
spec_windows1252_to_utf8_dict ==
    (\h80 :> \h20AC) @@ (\h82 :> \h201A) @@ (\h83 :> \h0192) @@ (\h84 :> \h201E) @@
    (\h85 :> \h2026) @@ (\h86 :> \h2020) @@ (\h87 :> \h2021) @@ (\h88 :> \h02C6) @@
    (\h89 :> \h2030) @@ (\h8A :> \h0160) @@ (\h8B :> \h2039) @@ (\h8C :> \h0152) @@
    (\h8E :> \h017D) @@ (\h91 :> \h2018) @@ (\h92 :> \h2019) @@ (\h93 :> \h201C) @@
    (\h94 :> \h201D) @@ (\h95 :> \h2022) @@ (\h96 :> \h2013) @@ (\h97 :> \h2014) @@
    (\h98 :> \h02DC) @@ (\h99 :> \h2122) @@ (\h9A :> \h0161) @@ (\h9B :> \h203A) @@
    (\h9C :> \h0153) @@ (\h9E :> \h017E) @@ (\h9F :> \h0178)

Row(f, src, tgt) == [file |-> f, source |-> src, target |-> tgt]

\* the surrogate section of init_mapping_dict, with undef_default = ''
SurrogateRecords ==
    [n \in 1..128 |->
       LET index == \h80 + n - 1
       IN  Row("builtin", <<index + \hDC00>>,
               IF index < \hA0
               THEN IF index \in DOMAIN spec_windows1252_to_utf8_dict
                    THEN <<spec_windows1252_to_utf8_dict[index]>>
                    ELSE <<>>
               ELSE <<index>>)]

\* The first code points of the digit sets that DigitMapping.tsv holds and
\* map_digits_to_ascii handles, in code point order.
DigitBlocks ==
    << \h0660, \h06F0, \h07C0, \h0966, \h09E6, \h0A66, \h0AE6, \h0B66, \h0BE6,
       \h0C66, \h0CE6, \h0D66, \h0DE6, \h0E50, \h0ED0, \h0F20, \h1040, \h1090,
       \h17E0, \h1810, \h1946, \h19D0, \h1A80, \h1A90, \h1B50, \h1BB0, \h1C40,
       \h1C50, \hA620, \hA8D0, \hA900, \hA9D0, \hA9F0, \hAA50, \hABF0,
       \h104A0, \h10D30, \h11066, \h110F0, \h11136, \h111D0, \h112F0, \h11450,
       \h114D0, \h11650, \h116C0, \h11730, \h118E0, \h11C50, \h11D50, \h11DA0,
       \h16A60, \h16B50, \h1E950 >>

\* The rows build_wildebeest_tsv_file writes to DigitMapping.tsv for these
\* sets: each decimal digit maps to str(ud.digit(char)).
DigitRows ==
    [n \in 1..(10 * Len(DigitBlocks)) |->
       LET digit == (n - 1) % 10
       IN  Row("Digit", <<DigitBlocks[(n - 1) \div 10 + 1] + digit>>, <<48 + digit>>)]

\* Records of the table files data/*Mapping.tsv, in load order: a sample of
\* the rows that build_wildebeest_tsv_file generates for each table.
TableRows ==
    << Row("PythonWildebeest", <<\hFB01>>, <<102, 105>>),            \* fi ligature -> fi
       Row("PythonWildebeest", <<\h00B5>>, <<\h03BC>>),              \* micro sign -> mu
       Row("PythonWildebeest", <<\h037E>>, <<59>>),                  \* Greek question mark -> ;
       Row("PythonWildebeest", <<\h061F>>, <<63>>),                  \* Arabic question mark -> ?
       Row("PythonWildebeest", <<\h3002>>, <<46>>),                  \* ideographic full stop -> .
       Row("PythonWildebeest", <<\h0F0C>>, <<\h0F0B>>),              \* Tibetan delimiter
       Row("ArabicPresentationForm", <<\hFE8D>>, <<\h0627>>),        \* alef isolated form
       Row("ArabicPresentationForm", <<\hFEFB>>, <<\h0644, \h0627>>),\* lam-alef ligature
       Row("CJKCompatibility", <<\h32C0>>, <<49, \h6708>>),          \* telegraph symbol January
       Row("CJKCompatibility", <<\hFF21>>, <<65>>),                  \* fullwidth A -> A
       Row("CJKCompatibility", <<\hFF19>>, <<57>>),                  \* fullwidth 9 -> 9
       Row("CombiningModifier", <<111, \h0308>>, <<\h00F6>>),        \* o + diaeresis -> o-umlaut
       Row("CombiningModifier", <<\h0958>>, <<\h0915, \h093C>>),     \* Devanagari qa -> ka + nukta
       Row("CoreCompatibility", <<\h2026>>, <<46, 46, 46>>),         \* ellipsis -> ...
       Row("CoreCompatibility", <<\h2160>>, <<73>>),                 \* Roman numeral one -> I
       Row("CoreCompatibility", <<\h3131>>, <<\h1100>>) >>           \* Hangul compatibility kiyeok
    \o DigitRows
    \o
    << Row("Digit", <<\h19DA>>, <<49>>),                             \* New Tai Lue Tham digit one
       Row("Digit", <<\hFF19>>, <<57>>),                             \* fullwidth 9
       Row("Enclosure", <<\h2460>>, <<40, 49, 41>>),                 \* circled 1 -> (1)
       Row("EncodingRepair", <<\h00C3, \h00A9>>, <<\h00E9>>),        \* e-acute, converted twice
       Row("EncodingRepair", <<\h0093>>, <<\h201C>>),                \* Latin-1 for Windows-1252
       Row("EncodingRepair", <<\h00E2, \h0080, \h009C>>, <<\h201C>>),
       Row("FontSmallVertical", <<\h2102>>, <<67>>),                 \* double-struck C -> C
       Row("FontSmallVertical", <<\hFE60>>, <<38>>),                 \* small ampersand -> &
       Row("FontSmallVertical", <<\hFE31>>, <<\h2014>>) >>           \* vertical em dash

MappingRecords == SurrogateRecords \o TableRows

\* set_mapping_dict keeping the value a key already has
set_mapping_dict_keep_first(d, key, value) == d @@ (key :> value)

\* self.mapping_dict[key] = value
set_mapping_dict(d, key, value) == (key :> value) @@ d

\* the assignments of init_mapping_dict for records[lo..hi], in order
LoadRecords(d, records, first, last) ==
    LET RECURSIVE Load(_, _, _)
        Load(x, lo, hi) ==
            IF lo > hi THEN x
            ELSE IF lo = hi
            THEN set_mapping_dict(x, records[lo].source, records[lo].target)
            ELSE Then(Load(x, lo, (lo + hi) \div 2),
                      LAMBDA y : Load(y, (lo + hi) \div 2 + 1, hi))
    IN  Load(d, first, last)

\* self.mapping_dict after init_mapping_dict
mapping_dict == LoadRecords(<<>>, MappingRecords, 1, Len(MappingRecords))

apply_mapping_dict(m) == IF m \in DOMAIN mapping_dict THEN mapping_dict[m] ELSE m

\* update_char_type_vector_dict: the <<key, flag name>> entries one table
\* record adds to char_type_vector_dict
update_char_type_vector_dict(source, target, filename_core) ==
    CASE filename_core = "Digit" ->
           {<<source, "char_is_mappable_decimal_digit">>}
           \cup (IF Len(source) >= 1 /\ source[1] >= \h10000
                 THEN {<<source, "char_is_100_plus_block_of_interest">>} ELSE {})
      [] filename_core = "FontSmallVertical" -> {<<source, "char_is_font_small_vertical">>}
      [] filename_core = "CoreCompatibility" -> {<<source, "char_is_core_compatibility">>}
      [] filename_core = "CJKCompatibility" -> {<<source, "char_is_decomposable_cjk">>}
      [] filename_core = "PythonWildebeest" ->
           IF Len(source) = 1
           THEN LET code_point == source[1]
                IN  CASE InRange(code_point, \h0132, \h01F3) \/ InRange(code_point, \hFB00, \hFB4F)
                           -> {<<source, "char_is_decomposable_ligature">>}
                      [] \/ code_point = \h00B5 \/ InRange(code_point, \h03D0, \h03F9)
                         \/ InRange(code_point, \h20A8, \h213B)
                           -> {<<source, "char_is_decomposable_sign_symbol">>}
                      [] InRange(code_point, \h0340, \h0387)
                           -> {<<source, "char_is_decomposable_greek_punctuation">>}
                      [] InRange(code_point, \h060C, \h06D4)
                           -> {<<source, "char_is_decomposable_arabic_punctuation">>}
                      [] \/ InRange(code_point, \h3008, \h3011) \/ InRange(code_point, \h3014, \h301B)
                         \/ InRange(code_point, \hFF61, \hFF64)
                         \/ code_point \in {\h3001, \h3002, \hFE11, \hFE12, \hFE51}
                           -> {<<source, "char_is_decomposable_cjk_punctuation">>}
                      [] code_point = \h0F0C
                           -> {<<source, "char_is_decomposable_misc_f_punctuation">>}
                      [] OTHER -> {}
           ELSE {}
      [] filename_core = "Enclosure" ->
           IF Len(source) >= 1 THEN {<<<<source[1]>>, "char_is_decomposable_enclosure">>} ELSE {}
      [] filename_core = "EncodingRepair" ->
           IF Len(source) >= 1 THEN {<<<<source[1]>>, "char_is_encoding_repair_anchor">>} ELSE {}
      [] filename_core = "CombiningModifier" ->
           IF Len(source) = 1 THEN {<<source, "char_is_decomposable_with_combining">>}
           ELSE IF Len(source) >= 2 /\ Len(target) = 1
           THEN {<<<<source[1]>>, "char_is_composable_anchor_with_combining">>,
                 <<<<source[2]>>, "char_is_composable_combining_diacritic">>}
           ELSE {}
      [] OTHER -> {}

TableFlagEntries ==
    UNION {update_char_type_vector_dict(TableRows[n].source, TableRows[n].target,
                                        TableRows[n].file) : n \in DOMAIN TableRows}

\* the flags that the constructor has ORed into char_type_vector_dict[char]
char_flags(char) ==
    RangeFlags(char) \cup {e[2] : e \in {x \in TableFlagEntries : x[1] = <<char>>}}

\* self.char_type_vector_dict.get(char, 0) once the constructor has returned
char_type_vector_dict(char) == UNION {FlagValue(name) : name \in char_flags(char)}

\* set_lv: the bitwise OR of the vectors of the characters of s
set_lv(s) == UNION {char_type_vector_dict(s[i]) : i \in 1..Len(s)}

(***************************************************************************)
(* The Normalization Pass Library.                                         *)
(***************************************************************************)
\* re.sub(r'[class]', self.apply_mapping_dict, s)
MapChars(s, InClass(_)) == SubChars(s, InClass, LAMBDA c : apply_mapping_dict(<<c>>))

\* re.sub(r'[class]', '', s), and a run of s.replace(char, '') statements
DelChars(s, InClass(_)) == SubChars(s, InClass, LAMBDA c : <<>>)

\* a run of s = s.replace(old, new) statements, applied in the order written
ReplaceEach(s, pairs, n) ==
    LET RECURSIVE Steps(_, _, _)
        Steps(x, lo, hi) ==
            IF lo > hi THEN x
            ELSE IF lo = hi THEN StrReplace(x, pairs[lo][1], pairs[lo][2])
            ELSE Then(Steps(x, lo, (lo + hi) \div 2),
                      LAMBDA y : Steps(y, (lo + hi) \div 2 + 1, hi))
    IN  Steps(s, n, Len(pairs))

repair_encoding_errors(s) ==
    LET s1 == MapChars(s, LAMBDA c : InRange(c, \hDC80, \hDCFF))
        s2 == ReSub(s1, LAMBDA t, i :
                      IF /\ i + 2 <= Len(t)
                         /\ t[i] = \h00E2
                         /\ InRange(t[i + 1], \h0080, \h00BF)
                         /\ InRange(t[i + 2], \h0080, \h00BF)
                      THEN 3 ELSE 0, apply_mapping_dict)
        s3 == ReSub(s2, LAMBDA t, i :
                      IF /\ i + 1 <= Len(t)
                         /\ t[i] \in {\h00C2, \h00C3, \h00C5, \h00C6, \h00CB}
                         /\ \/ InRange(t[i + 1], \h0080, \h02FF)
                            \/ InRange(t[i + 1], \h2000, \h21FF)
                      THEN 2 ELSE 0, apply_mapping_dict)
    IN  MapChars(s3, LAMBDA c : InRange(c, \h0080, \h009F))

delete_surrogates(s) == DelChars(s, LAMBDA c : InRange(c, \hDC80, \hDCFF))

delete_zero_width_characters(s) ==
    LET s1 == StrReplace(s, <<\h00AD>>, <<>>)
        s2 == DelChars(s1, LAMBDA c : InRange(c, \h200B, \h200F))
    IN  StrReplace(s2, <<\hFEFF>>, <<>>)

delete_arabic_tatweel(s) == StrReplace(s, <<\h0640>>, <<>>)

\* delete_control_characters with the third range ending at the space
delete_control_characters_to_space(s) ==
    LET s1 == DelChars(s, LAMBDA c : InRange(c, \h0000, \h0008))
        s2 == DelChars(s1, LAMBDA c : InRange(c, \h000B, \h000C))
        s3 == DelChars(s2, LAMBDA c : InRange(c, \h000E, \h0020))
        s4 == DelChars(s3, LAMBDA c : InRange(c, \h007F, \h009F))
        s5 == ReSub(s4, LAMBDA t, i :
                      IF /\ i > 1
                         /\ InRange(t[i - 1], \h0000, \h218F)
                         /\ InRange(t[i], \hFE00, \hFE0F)
                      THEN 1 ELSE 0, LAMBDA m : <<>>)
    IN  ReSub(s5, LAMBDA t, i :
                IF /\ i > 1
                   /\ InRange(t[i - 1], \h0000, \h218F)
                   /\ InRange(t[i], \hE0100, \hE01EF)
                THEN 1 ELSE 0, LAMBDA m : <<>>)

\* a variation selector is deleted only where the character before it, in the
\* string the substitution is applied to, lies in U+0000..U+218F
delete_control_characters(s) ==
    LET s1 == DelChars(s, LAMBDA c : InRange(c, \h0000, \h0008))
        s2 == DelChars(s1, LAMBDA c : InRange(c, \h000B, \h000C))
        s3 == DelChars(s2, LAMBDA c : InRange(c, \h000E, \h001F))
        s4 == DelChars(s3, LAMBDA c : InRange(c, \h007F, \h009F))
        s5 == ReSub(s4, LAMBDA t, i :
                      IF /\ i > 1
                         /\ InRange(t[i - 1], \h0000, \h218F)
                         /\ InRange(t[i], \hFE00, \hFE0F)
                      THEN 1 ELSE 0, LAMBDA m : <<>>)
    IN  ReSub(s5, LAMBDA t, i :
                IF /\ i > 1
                   /\ InRange(t[i - 1], \h0000, \h218F)
                   /\ InRange(t[i], \hE0100, \hE01EF)
                THEN 1 ELSE 0, LAMBDA m : <<>>)

delete_arabic_diacritics(s) == DelChars(s, LAMBDA c : InRange(c, \h064B, \h0652))

delete_hebrew_diacritics(s) ==
    DelChars(s, LAMBDA c : InRange(c, \h05B0, \h05BD) \/ c \in {\h05BF, \h05C1, \h05C2, \h05C7})

normalize_arabic_characters(s) ==
    ReplaceEach(s, << <<<<\h06A9>>, <<\h0643>>>>, <<<<\h06CC>>, <<\h064A>>>>,
                      <<<<\h0675>>, <<\h0623>>>>, <<<<\h0676>>, <<\h0624>>>>,
                      <<<<\h0678>>, <<\h0626>>>>, <<<<\h067C>>, <<\h062A>>>>,
                      <<<<\h0689>>, <<\h062F>>>>, <<<<\h0693>>, <<\h0631>>>>,
                      <<<<\h06AB>>, <<\h06AF>>>>, <<<<\h06BC>>, <<\h0646>>>>,
                      <<<<\h06CD>>, <<\h064A>>>> >>, 1)

normalize_farsi_characters(s) ==
    ReplaceEach(s, << <<<<\h064A>>, <<\h06CC>>>>, <<<<\h0649>>, <<\h06CC>>>>,
                      <<<<\h06CD>>, <<\h06CC>>>>, <<<<\h0643>>, <<\h06A9>>>>,
                      <<<<\h06AB>>, <<\h06AF>>>>, <<<<\h067C>>, <<\h062A>>>>,
                      <<<<\h0689>>, <<\h062F>>>>, <<<<\h0693>>, <<\h0631>>>>,
                      <<<<\h06BC>>, <<\h0646>>>>, <<<<\h06CD>>, <<\h064A>>>> >>, 1)

normalize_pashto_characters(s) ==
    ReplaceEach(s, << <<<<\h0649>>, <<\h06CC>>>>, <<<<\h06CD>>, <<\h06CC>>>>,
                      <<<<\h0643>>, <<\h06A9>>>> >>, 1)

\* str.maketrans(georgian_intab, georgian_outtab): Mtavruli, Asomtavruli and
\* Nuskhuri letters to Mkhedruli
georgian_trantab(c) ==
    CASE InRange(c, \h1C90, \h1CBA) -> c - \h1C90 + \h10D0
      [] InRange(c, \h1CBD, \h1CBF) -> c - \h1CBD + \h10FD
      [] InRange(c, \h10A0, \h10C5) -> c - \h10A0 + \h10D0
      [] c = \h10C7 -> \h10F7
      [] c = \h10CD -> \h10FD
      [] InRange(c, \h2D00, \h2D25) -> c - \h2D00 + \h10D0
      [] c = \h2D27 -> \h10F7
      [] c = \h2D2D -> \h10FD
      [] OTHER -> c

\* the five replace calls are written with the code points their string
\* literals hold in the source file
normalize_georgian_characters(s) ==
    ReplaceEach([i \in 1..Len(s) |-> georgian_trantab(s[i])],
                << << <<\h00B7, \h00C9, \h00B1>>, <<\h00B7, \h00C9, \h00EE>> >>,
                   << <<\h00B7, \h00C9, \h2264>>, <<\h00B7, \h00C9, \h00F2>> >>,
                   << <<\h00B7, \h00C9, \h2265>>,
                      <<\h00B7, \h00C9, \h00EF, \h00B7, \h00C9, \h00F2>> >>,
                   << <<\h00B7, \h00C9, \h00A5>>,
                      <<\h00B7, \h00C9, \h00C6, \h00B7, \h00C9, \h00EE>> >>,
                   << <<\h00B7, \h00C9, \h00B5>>,
                      <<\h00B7, \h00C9, \h221E, \h00B7, \h00C9, \h00F9,
                        \h00B7, \h00C9, \h00F2>> >> >>, 1)

normalize_arabic_pres_form_characters(s) ==
    MapChars(s, LAMBDA c : InRange(c, \hFB50, \hFDFF) \/ InRange(c, \hFE70, \hFEFC))

normalize_ligatures(s) ==
    ReplaceEach(s, << <<<<\h0132>>, <<73, 74>>>>, <<<<\h0133>>, <<105, 106>>>>,
                      <<<<\h013F>>, <<76, \h00B7>>>>, <<<<\h0140>>, <<108, \h00B7>>>>,
                      <<<<\h0149>>, <<\h02BC, 110>>>>, <<<<\h017F>>, <<115>>>>,
                      <<<<\h01C4>>, <<68, \h017D>>>>, <<<<\h01C5>>, <<68, \h017E>>>>,
                      <<<<\h01C6>>, <<100, \h017E>>>>, <<<<\h01C7>>, <<76, 74>>>>,
                      <<<<\h01C8>>, <<76, 106>>>>, <<<<\h01C9>>, <<108, 106>>>>,
                      <<<<\h01CA>>, <<78, 74>>>>, <<<<\h01CB>>, <<78, 106>>>>,
                      <<<<\h01CC>>, <<110, 106>>>>, <<<<\h01F1>>, <<68, 90>>>>,
                      <<<<\h01F2>>, <<68, 122>>>>, <<<<\h01F3>>, <<100, 122>>>>,
                      <<<<\h1E9B>>, <<\h1E61>>>>, <<<<\hFB00>>, <<102, 102>>>>,
                      <<<<\hFB01>>, <<102, 105>>>>, <<<<\hFB02>>, <<102, 108>>>>,
                      <<<<\hFB03>>, <<102, 102, 105>>>>,
                      <<<<\hFB04>>, <<102, 102, 108>>>>, <<<<\hFB05>>, <<115, 116>>>>,
                      <<<<\hFB06>>, <<115, 116>>>>, <<<<\hFB13>>, <<\h0574, \h0576>>>>,
                      <<<<\hFB14>>, <<\h0574, \h0565>>>>,
                      <<<<\hFB15>>, <<\h0574, \h056B>>>>,
                      <<<<\hFB16>>, <<\h057E, \h0576>>>>,
                      <<<<\hFB17>>, <<\h0574, \h056D>>>>,
                      <<<<\hFB49>>, <<\h05E9, \h05BC>>>>,
                      <<<<\hFB4F>>, <<\h05D0, \h05DC>>>> >>, 1)

normalize_signs_and_symbols(s) ==
    ReplaceEach(s, << <<<<\h00B5>>, <<\h03BC>>>>, <<<<\h03D0>>, <<\h03B2>>>>,
                      <<<<\h03D1>>, <<\h03B8>>>>, <<<<\h03D2>>, <<\h03A5>>>>,
                      <<<<\h03D3>>, <<\h038E>>>>, <<<<\h03D4>>, <<\h03AB>>>>,
                      <<<<\h03D5>>, <<\h03C6>>>>, <<<<\h03D6>>, <<\h03C0>>>>,
                      <<<<\h03F0>>, <<\h03BA>>>>, <<<<\h03F1>>, <<\h03C1>>>>,
                      <<<<\h03F2>>, <<\h03C2>>>>, <<<<\h03F4>>, <<\h0398>>>>,
                      <<<<\h03F5>>, <<\h03B5>>>>, <<<<\h03F9>>, <<\h03A3>>>>,
                      <<<<\h20A8>>, <<82, 115>>>>, <<<<\h2103>>, <<\h00B0, 67>>>>,
                      <<<<\h2107>>, <<\h0190>>>>, <<<<\h2109>>, <<\h00B0, 70>>>>,
                      <<<<\h2116>>, <<78, 111, 46>>>>, <<<<\h2126>>, <<\h03A9>>>>,
                      <<<<\h212A>>, <<75>>>>, <<<<\h212B>>, <<\h00C5>>>>,
                      <<<<\h2135>>, <<\h05D0>>>>, <<<<\h2136>>, <<\h05D1>>>>,
                      <<<<\h2137>>, <<\h05D2>>>>, <<<<\h2138>>, <<\h05D3>>>>,
                      <<<<\h213B>>, <<70, 65, 88>>>> >>, 1)

normalize_cjk(s) ==
    LET s1 == MapChars(s, LAMBDA c :
                  \/ InRange(c, \h2F00, \h2FDF) \/ InRange(c, \h3038, \h303A)
                  \/ c = \h3250 \/ InRange(c, \h32C0, \h33FF) \/ InRange(c, \hF900, \hFAFF))
    IN  MapChars(s1, LAMBDA c : c \in {\h1F190, \h1F200} \/ InRange(c, \h2F800, \h2FA1F))

\* re.sub(r'.[class]{k}', self.apply_mapping_dict, s): `.' is any character
\* but the line feed
ComposeWith(s, k, InClass(_)) ==
    ReSub(s, LAMBDA t, i :
                IF /\ i + k <= Len(t)
                   /\ t[i] # 10
                   /\ \A j \in 1..k : InClass(t[i + j])
                THEN k + 1 ELSE 0, apply_mapping_dict)

IsGeneralCombining(c) ==
    InRange(c, \h0300, \h036F) \/ InRange(c, \h0653, \h0655) \/ c \in {\h3099, \h309A}

IsSouthAsianCombining(c) ==
    c = \h093C \/ InRange(c, \h09BE, \h102E) \/ c = \h1B35 \/ InRange(c, \h11000, \h115FF)

apply_combining_modifiers_compose(s) ==
    LET s1 == IF HasChar(s, IsGeneralCombining)
              THEN ComposeWith(ComposeWith(ComposeWith(s, 3, IsGeneralCombining),
                                           2, IsGeneralCombining), 1, IsGeneralCombining)
              ELSE s
        s2 == IF HasChar(s1, IsSouthAsianCombining)
              THEN ComposeWith(s1, 1, IsSouthAsianCombining)
              ELSE s1
    IN  StrReplace(s2, <<\h0565, \h0582>>, <<\h0587>>)

apply_combining_modifiers_decompose(s) ==
    LET s1 == MapChars(s, LAMBDA c :
                  \/ c = \h0344 \/ InRange(c, \h0958, \h095F) \/ InRange(c, \h09DC, \h0B5D)
                  \/ InRange(c, \h0F43, \h0FB9) \/ c = \h2ADC \/ InRange(c, \hFB1D, \hFB4E))
    IN  MapChars(s1, LAMBDA c : InRange(c, \h1D100, \h1D1FF))

\* the three assert statements of hangul_jamo_triple_to_syllable
hangul_jamo_triple_asserts(leading_jamo, vowel_jamo, trailing_jamo) ==
    /\ Len(leading_jamo) = 1 /\ PyRange(leading_jamo[1], \h1100, \h1113)
    /\ Len(vowel_jamo) = 1 /\ PyRange(vowel_jamo[1], \h1161, \h1176)
    /\ \/ trailing_jamo = <<>>
       \/ Len(trailing_jamo) = 1 /\ PyRange(trailing_jamo[1], \h11A8, \h11C3)

\* hangul_jamo_triple_to_syllable with the first trailing jamo mapped to 0
hangul_jamo_triple_to_syllable_first_trailing_0(leading_jamo, vowel_jamo, trailing_jamo) ==
    LET leading_index == leading_jamo[1] - \h1100
        vowel_index == vowel_jamo[1] - \h1161
        trailing_index == IF trailing_jamo = <<>> THEN 0 ELSE trailing_jamo[1] - \h11A8
    IN  <<(leading_index * 588) + (vowel_index * 28) + trailing_index + \hAC00>>

\* Hangul: the syllable of a leading, a vowel and an optional trailing jamo;
\* -1 stands for the AssertionError of a failed assert statement
hangul_jamo_triple_to_syllable(leading_jamo, vowel_jamo, trailing_jamo) ==
    LET leading_index == leading_jamo[1] - \h1100
        vowel_index == vowel_jamo[1] - \h1161
        trailing_index == IF trailing_jamo = <<>> THEN 0 ELSE trailing_jamo[1] - \h11A7
    IN  IF hangul_jamo_triple_asserts(leading_jamo, vowel_jamo, trailing_jamo)
        THEN <<(leading_index * 588) + (vowel_index * 28) + trailing_index + \hAC00>>
        ELSE <<-1>>

hangul_jamo_triple_match_to_syllable(m) ==
    hangul_jamo_triple_to_syllable(<<m[1]>>, <<m[2]>>, SubSeq(m, 3, Len(m)))

\* normalize_hangul matching every leading, vowel and trailing jamo of the
\* Hangul Jamo block, not the modern ones only
normalize_hangul_any_jamo(s) ==
    IF HasChar(s, LAMBDA c : InRange(c, \h1161, \h1175))
    THEN ReSub(s, LAMBDA t, i :
                    IF /\ i + 1 <= Len(t)
                       /\ InRange(t[i], \h1100, \h115F)
                       /\ InRange(t[i + 1], \h1160, \h11A7)
                    THEN IF i + 2 <= Len(t) /\ InRange(t[i + 2], \h11A8, \h11FF)
                         THEN 3 ELSE 2
                    ELSE 0, hangul_jamo_triple_match_to_syllable)
    ELSE s

normalize_hangul(s) ==
    IF HasChar(s, LAMBDA c : InRange(c, \h1161, \h1175))
    THEN ReSub(s, LAMBDA t, i :
                    IF /\ i + 1 <= Len(t)
                       /\ InRange(t[i], \h1100, \h1112)
                       /\ InRange(t[i + 1], \h1161, \h1175)
                    THEN IF i + 2 <= Len(t) /\ InRange(t[i + 2], \h11A8, \h11C2)
                         THEN 3 ELSE 2
                    ELSE 0, hangul_jamo_triple_match_to_syllable)
    ELSE s

\* the number of consecutive characters c in t from position i on
RECURSIVE RunLen(_, _, _)
RunLen(t, i, c) == IF i <= Len(t) /\ t[i] = c THEN 1 + RunLen(t, i + 1, c) ELSE 0

\* re.sub(r'([lo-hi extra])(nukta+)', r'\2\1', s) for the rows <<lo, hi, extra,
\* nukta, many>> in order; many is FALSE for a pattern without the +
NuktaFirst(s, rows, n) ==
    LET Step(x, r) ==
            ReSub(x, LAMBDA t, i :
                        IF /\ InRange(t[i], r[1], r[2]) \/ t[i] \in r[3]
                           /\ RunLen(t, i + 1, r[4]) > 0
                        THEN 1 + (IF r[5] THEN RunLen(t, i + 1, r[4]) ELSE 1)
                        ELSE 0,
                     LAMBDA m : Tail(m) \o <<Head(m)>>)
        RECURSIVE Steps(_, _, _)
        Steps(x, lo, hi) ==
            IF lo > hi THEN x
            ELSE IF lo = hi THEN Step(x, rows[lo])
            ELSE Then(Steps(x, lo, (lo + hi) \div 2),
                      LAMBDA y : Steps(y, (lo + hi) \div 2 + 1, hi))
    IN  Steps(s, n, Len(rows))

\* re.sub(r'(nukta)nukta+', r'\1', s) for the nuktas in order
OneNukta(s, nuktas, n) ==
    LET Step(x, nukta) ==
            ReSub(x, LAMBDA t, i :
                        IF t[i] = nukta /\ RunLen(t, i + 1, nukta) > 0
                        THEN 1 + RunLen(t, i + 1, nukta) ELSE 0,
                     LAMBDA m : <<Head(m)>>)
        RECURSIVE Steps(_, _, _)
        Steps(x, lo, hi) ==
            IF lo > hi THEN x
            ELSE IF lo = hi THEN Step(x, nuktas[lo])
            ELSE Then(Steps(x, lo, (lo + hi) \div 2),
                      LAMBDA y : Steps(y, (lo + hi) \div 2 + 1, hi))
    IN  Steps(s, n, Len(nuktas))

\* self_lv is self.lv, the vector of the last set_lv
repair_combining_modifiers_with_nukta(s, self_lv) ==
    LET s1 == IF Overlaps(self_lv, bit_vector.char_is_devanagari)
              THEN OneNukta(NuktaFirst(s, << <<\h093E, \h094D, {}, \h093C, TRUE>> >>, 1),
                            <<\h093C>>, 1)
              ELSE s
        s2 == IF Overlaps(self_lv, bit_vector.char_is_bengali_plus)
              THEN OneNukta(NuktaFirst(s1, << <<\h09BE, \h09CD, {}, \h09BC, TRUE>>,
                                              <<\h0A3E, \h0A4D, {}, \h0A3C, TRUE>>,
                                              <<\h0ABE, \h0ACD, {}, \h0ABC, TRUE>>,
                                              <<\h0B3E, \h0B4D, {}, \h0B3C, TRUE>>,
                                              <<\h0CBE, \h0CCD, {}, \h0CBC, TRUE>> >>, 1),
                            <<\h09BC, \h0A3C, \h0ABC, \h0B3C, \h0CBC>>, 1)
              ELSE s1
        s3 == IF Overlaps(self_lv, bit_vector.char_is_khmer_plus)
              THEN NuktaFirst(s2, << <<\h1C26, \h1C2C, {}, \h1C37, FALSE>> >>, 1)
              ELSE s2
    IN  IF Overlaps(self_lv, bit_vector.char_is_100_plus_block_of_interest)
        THEN NuktaFirst(s3, << <<\h110B0, \h110B8, {}, \h110BA, FALSE>>,
                               <<\h111B3, \h111C0, {}, \h111CA, FALSE>>,
                               <<\h1122C, \h11235, {}, \h11236, FALSE>>,
                               <<\h112E0, \h112E8, {\h112EA}, \h112E9, FALSE>>,
                               <<\h1133E, \h1134D, {}, \h1133C, FALSE>>,
                               <<\h11435, \h11442, {}, \h11446, FALSE>>,
                               <<\h114B0, \h114C2, {}, \h114C3, FALSE>>,
                               <<\h115AF, \h115BF, {}, \h115C0, FALSE>>,
                               <<\h116AD, \h116B6, {}, \h116B7, FALSE>>,
                               <<\h1182C, \h11839, {}, \h1183A, FALSE>>,
                               <<\h11930, \h1193E, {}, \h11943, FALSE>>,
                               <<\h11D31, \h11D3F, {\h11D45}, \h11D42, FALSE>> >>, 1)
        ELSE s3

\* the static method normalize_devanagari_diacritics, which wildebeest itself
\* no longer calls
normalize_devanagari_diacritics(s) ==
    LET s1 == IF HasChar(s, LAMBDA c : c = \h093C)
              THEN ReplaceEach(NuktaFirst(s, << <<\h093E, \h094D, {}, \h093C, FALSE>> >>, 1),
                               << << <<\h0928, \h093C>>, <<\h0929>> >>,
                                  << <<\h0930, \h093C>>, <<\h0931>> >>,
                                  << <<\h0933, \h093C>>, <<\h0934>> >> >>, 1)
              ELSE s
    IN  IF HasChar(s1, LAMBDA c : InRange(c, \h0958, \h095F))
        THEN ReplaceEach(s1, << << <<\h0958>>, <<\h0915, \h093C>> >>,
                                << <<\h0959>>, <<\h0916, \h093C>> >>,
                                << <<\h095A>>, <<\h0917, \h093C>> >>,
                                << <<\h095B>>, <<\h091C, \h093C>> >>,
                                << <<\h095C>>, <<\h0921, \h093C>> >>,
                                << <<\h095D>>, <<\h0922, \h093C>> >>,
                                << <<\h095E>>, <<\h092B, \h093C>> >>,
                                << <<\h095F>>, <<\h092F, \h093C>> >> >>, 1)
        ELSE s1

normalize_arabic_punctuation(s) ==
    ReplaceEach(s, << <<<<\h0640>>, <<>>>>, <<<<\h060C>>, <<44>>>>,
                      <<<<\h060D>>, <<47>>>>, <<<<\h061B>>, <<59>>>>,
                      <<<<\h061F>>, <<63>>>>, <<<<\h066A>>, <<37>>>>,
                      <<<<\h066B>>, <<46>>>>, <<<<\h066C>>, <<44>>>>,
                      <<<<\h066D>>, <<42>>>>, <<<<\h06D4>>, <<46>>>> >>, 1)

normalize_greek_punctuation(s) ==
    ReplaceEach(s, << <<<<\h0340>>, <<\h0300>>>>, <<<<\h0341>>, <<\h0301>>>>,
                      <<<<\h0343>>, <<\h0313>>>>, <<<<\h0374>>, <<\h02B9>>>>,
                      <<<<\h037E>>, <<59>>>>, <<<<\h0387>>, <<\h00B7>>>> >>, 1)

normalize_cjk_punctuation(s) ==
    ReplaceEach(s, << <<<<\h3001>>, <<44>>>>, <<<<\h3002>>, <<46>>>>,
                      <<<<\h3008>>, <<60>>>>, <<<<\h3009>>, <<62>>>>,
                      <<<<\h300A>>, <<\h201C>>>>, <<<<\h300B>>, <<\h201D>>>>,
                      <<<<\h300C>>, <<\h201C>>>>, <<<<\h300D>>, <<\h201D>>>>,
                      <<<<\h300E>>, <<\h201C>>>>, <<<<\h300F>>, <<\h201D>>>>,
                      <<<<\h3010>>, <<91>>>>, <<<<\h3011>>, <<93>>>>,
                      <<<<\h3014>>, <<91>>>>, <<<<\h3015>>, <<93>>>>,
                      <<<<\h3016>>, <<91>>>>, <<<<\h3017>>, <<93>>>>,
                      <<<<\h3018>>, <<91>>>>, <<<<\h3019>>, <<93>>>>,
                      <<<<\h301A>>, <<91>>>>, <<<<\h301B>>, <<93>>>> >>, 1)

normalize_misc_f_punctuation(s) == StrReplace(s, <<\h0F0C>>, <<\h0F0B>>)

normalize_punctuation(s) ==
    LET s1 == ReplaceEach(s, << <<<<\h00AB>>, <<\h201C>>>>, <<<<\h00BB>>, <<\h201D>>>>,
                                <<<<\h201A>>, <<\h2018>>>>, <<<<\h201B>>, <<\h2018>>>>,
                                <<<<\h201E>>, <<\h201C>>>>, <<<<\h201F>>, <<\h201C>>>>,
                                <<<<\h2039>>, <<\h2018>>>>, <<<<\h203A>>, <<\h2019>>>> >>, 1)
        s2 == MapChars(s1, LAMBDA c :
                  \/ c = \h2011 \/ InRange(c, \h2024, \h2026)
                  \/ InRange(c, \h2033, \h203C) \/ InRange(c, \h2047, \h2057))
        s3 == MapChars(s2, LAMBDA c : InRange(c, \h2329, \h232A) \/ InRange(c, \h2A74, \h2A76))
        s4 == ReplaceEach(s3, << <<<<\h2212>>, <<45>>>>, <<<<\h2215>>, <<47>>>>,
                                 <<<<\h2216>>, <<92>>>>, <<<<\h2217>>, <<42>>>>,
                                 <<<<\h2218>>, <<\h25E6>>>>, <<<<\h2219>>, <<\h2022>>>>,
                                 <<<<\h2223>>, <<124>>>>, <<<<\h2236>>, <<58>>>>,
                                 <<<<\h2254>>, <<58, 61>>>>, <<<<\h2255>>, <<61, 58>>>>,
                                 <<<<\h22C5>>, <<\h00B7>>>> >>, 1)
        s5 == MapChars(s4, LAMBDA c : InRange(c, \h222C, \h2230) \/ c = \h2A0C)
    IN  MapChars(s5, LAMBDA c : InRange(c, \h2488, \h249B) \/ InRange(c, \h1F100, \h1F10A))

normalize_dash_punctuation(s) ==
    LET s1 == SubChars(s, LAMBDA c : InRange(c, \h2010, \h2015), LAMBDA c : <<45>>)
    IN  ReplaceEach(s1, << <<<<\h2212>>, <<45>>>>, <<<<\h2500>>, <<45>>>>,
                           <<<<\h2501>>, <<45>>>>, <<<<\h2E3A>>, <<45>>>>,
                           <<<<\h2E3B>>, <<45>>>> >>, 1)

normalize_non_zero_spaces(s) ==
    LET s1 == StrReplace(s, <<\h00A0>>, <<32>>)
        s2 == SubChars(s1, LAMBDA c : InRange(c, \h2000, \h200A), LAMBDA c : <<32>>)
    IN  ReplaceEach(s2, << <<<<\h202F>>, <<32>>>>, <<<<\h205F>>, <<32>>>>,
                           <<<<\h3000>>, <<32>>>> >>, 1)

normalize_half_and_full_width_characters(s) ==
    IF HasChar(s, LAMBDA c : InRange(c, \hFF01, \hFFEE))
    THEN MapChars(s, LAMBDA c : InRange(c, \hFF01, \hFFEE))
    ELSE s

normalize_font_characters(s) ==
    MapChars(s, LAMBDA c :
        \/ InRange(c, \h2102, \h2149) \/ InRange(c, \hFB20, \hFB29)
        \/ InRange(c, \h1D400, \h1D7FF) \/ InRange(c, \h1EE00, \h1EEBB)
        \/ InRange(c, \h1FBF0, \h1FBF9))

normalize_small_characters(s) == MapChars(s, LAMBDA c : InRange(c, \hFE50, \hFE6F))

normalize_vertical_characters(s) ==
    MapChars(s, LAMBDA c :
        c \in {\h309F, \h30FF} \/ InRange(c, \hFE10, \hFE19) \/ InRange(c, \hFE30, \hFE48))

normalize_enclosure_characters(s) ==
    LET s1 == MapChars(s, LAMBDA c :
                  \/ InRange(c, \h2460, \h2488) \/ InRange(c, \h249C, \h2500)
                  \/ c = \h3036 \/ InRange(c, \h3200, \h3250)
                  \/ InRange(c, \h3251, \h32C0) \/ InRange(c, \h32D0, \h32FF))
    IN  MapChars(s1, LAMBDA c : InRange(c, \h1F110, \h1F16A) \/ InRange(c, \h1F201, \h1F260))

normalize_core_compat_characters(s) ==
    LET s1 == MapChars(s, LAMBDA c : InRange(c, \h2160, \h217F))
        s2 == MapChars(s1, LAMBDA c : InRange(c, \h3131, \h318E))
    IN  MapChars(s2, LAMBDA c : c \in {\h0E33, \h0EB3, \h0EDC, \h0EDD})

\* a run of re.sub(r'[lo-hi]', self.apply_mapping_dict, s) statements
MapRanges(s, ranges, n) ==
    LET RECURSIVE Steps(_, _, _)
        Steps(x, lo, hi) ==
            IF lo > hi THEN x
            ELSE IF lo = hi
            THEN MapChars(x, LAMBDA c : InRange(c, ranges[lo][1], ranges[lo][2]))
            ELSE Then(Steps(x, lo, (lo + hi) \div 2),
                      LAMBDA y : Steps(y, (lo + hi) \div 2 + 1, hi))
    IN  Steps(s, n, Len(ranges))

\* self_lv is self.lv: whatever the last set_lv left there
map_digits_to_ascii(s, self_lv) ==
    LET If_lv(flag, ranges) == IF Overlaps(self_lv, flag) THEN ranges ELSE <<>>
    IN  MapRanges(s,
          If_lv(bit_vector.char_is_arabic,
                    << <<\h0660, \h0669>>, <<\h06F0, \h06F9>> >>)
          \o If_lv(bit_vector.char_is_thaana_plus,
                    << <<\h07C0, \h07C9>> >>)
          \o If_lv(bit_vector.char_is_devanagari,
                    << <<\h0966, \h096F>> >>)
          \o If_lv(bit_vector.char_is_bengali_plus,
                    << <<\h09E6, \h09EF>>, <<\h0A66, \h0A6F>>, <<\h0AE6, \h0AEF>>,
                       <<\h0B66, \h0B6F>>, <<\h0BE6, \h0BEF>>, <<\h0C66, \h0C6F>>,
                       <<\h0CE6, \h0CEF>>, <<\h0D66, \h0D6F>>, <<\h0DE6, \h0DEF>> >>)
          \o If_lv(bit_vector.char_is_thai_plus,
                    << <<\h0E50, \h0E59>>, <<\h0ED0, \h0ED9>>, <<\h0F20, \h0F29>>,
                       <<\h1040, \h1049>>, <<\h1090, \h1099>> >>)
          \o If_lv(bit_vector.char_is_khmer_plus,
                    << <<\h17E0, \h17E9>>, <<\h1810, \h1819>>, <<\h1946, \h194F>>,
                       <<\h19D0, \h19DA>>, <<\h1A80, \h1A89>>, <<\h1A90, \h1A99>>,
                       <<\h1B50, \h1B59>>, <<\h1BB0, \h1BB9>>, <<\h1C40, \h1C49>>,
                       <<\h1C50, \h1C59>> >>)
          \o If_lv(bit_vector.char_is_lisu_plus,
                    << <<\hA620, \hA629>>, <<\hA8D0, \hA8D9>>, <<\hA900, \hA909>>,
                       <<\hA9D0, \hA9D9>>, <<\hA9F0, \hA9F9>>, <<\hAA50, \hAA59>>,
                       <<\hABF0, \hABF9>> >>)
          \o If_lv(bit_vector.char_is_100_plus_block_of_interest,
                    << <<\h104A0, \h104A9>>, <<\h10D30, \h10D39>>,
                       <<\h11066, \h1106F>>, <<\h110F0, \h110F9>>,
                       <<\h11136, \h1113F>>, <<\h111D0, \h111D9>>,
                       <<\h112F0, \h112F9>>, <<\h11450, \h11459>>,
                       <<\h114D0, \h114D9>>, <<\h11650, \h11659>>,
                       <<\h116C0, \h116C9>>, <<\h11730, \h11739>>,
                       <<\h118E0, \h118E9>>, <<\h11C50, \h11C59>>,
                       <<\h11D50, \h11D59>>, <<\h11DA0, \h11DA9>>,
                       <<\h16A60, \h16A69>>, <<\h16B50, \h16B59>>,
                       <<\h1E950, \h1E959>> >>), 1)

\* case folding of re.IGNORECASE, for the letters the patterns below use
Lower(c) ==
    IF InRange(c, 65, 90) THEN c + 32
    ELSE IF c = \h017F THEN 115                \* long s matches s
    ELSE IF c = \h212A THEN 107                \* Kelvin sign matches k
    ELSE c

\* the literal `lit' (in lower case) occurs in t at position i, case ignored
LitAtFold(t, i, lit) ==
    /\ i >= 1
    /\ i + Len(lit) - 1 <= Len(t)
    /\ \A j \in 1..Len(lit) : Lower(t[i + j - 1]) = lit[j]

\* \d of a str pattern matches the decimal digits of every script; these
\* are the ASCII, the fullwidth and the Arabic to Lao blocks of them
IsDecimalDigit(c) ==
    \/ InRange(c, 48, 57) \/ InRange(c, \hFF10, \hFF19)
    \/ InRange(c, \h0660, \h0669) \/ InRange(c, \h06F0, \h06F9)
    \/ InRange(c, \h07C0, \h07C9) \/ InRange(c, \h0966, \h096F)
    \/ InRange(c, \h09E6, \h09EF) \/ InRange(c, \h0A66, \h0A6F)
    \/ InRange(c, \h0AE6, \h0AEF) \/ InRange(c, \h0B66, \h0B6F)
    \/ InRange(c, \h0BE6, \h0BEF) \/ InRange(c, \h0C66, \h0C6F)
    \/ InRange(c, \h0CE6, \h0CEF) \/ InRange(c, \h0D66, \h0D6F)
    \/ InRange(c, \h0E50, \h0E59) \/ InRange(c, \h0ED0, \h0ED9)

\* (?:amp|apos|gt|lt|nbsp|quot|#\d{1,6}|#x[0-9A-F]{1,5}); at position j
EntityAhead(t, j) ==
    \/ \E name \in { <<97, 109, 112>>, <<97, 112, 111, 115>>, <<103, 116>>,
                     <<108, 116>>, <<110, 98, 115, 112>>, <<113, 117, 111, 116>> } :
          LitAtFold(t, j, name \o <<59>>)
    \/ /\ j <= Len(t)
       /\ t[j] = 35
       /\ \E k \in 1..6 :
             /\ j + k + 1 <= Len(t)
             /\ \A d \in 1..k : IsDecimalDigit(t[j + d])
             /\ t[j + k + 1] = 59
    \/ /\ LitAtFold(t, j, <<35, 120>>)
       /\ \E k \in 1..5 :
             /\ j + k + 2 <= Len(t)
             /\ \A d \in 1..k : InRange(t[j + 1 + d], 48, 57) \/ InRange(Lower(t[j + 1 + d]), 97, 102)
             /\ t[j + k + 2] = 59

\* the number of consecutive `amp;' in t from position i on
RECURSIVE AmpRun(_, _)
AmpRun(t, i) == IF LitAtFold(t, i, <<97, 109, 112, 59>>) THEN 1 + AmpRun(t, i + 4) ELSE 0

\* (?<=&)(?:amp;)+(?=entity;) -> '': the longest run of `amp;' after an
\* ampersand that leaves an entity behind it
repair_xml(s) ==
    ReSub(s, LAMBDA t, i :
                IF i > 1 /\ t[i - 1] = 38
                THEN LET ks == {k \in 1..AmpRun(t, i) : EntityAhead(t, i + 4 * k)}
                     IN  IF ks = {} THEN 0
                         ELSE 4 * (CHOOSE k \in ks : \A k2 \in ks : k2 <= k)
                ELSE 0, LAMBDA m : <<>>)

IsUpperHex(c) == InRange(c, 48, 57) \/ InRange(c, 65, 70)

\* %25 at position i, then a character of `lead' and a hexadecimal digit
EscapedByte(t, i, lead) ==
    /\ i + 4 <= Len(t)
    /\ t[i] = 37 /\ t[i + 1] = 50 /\ t[i + 2] = 53
    /\ t[i + 3] \in lead
    /\ IsUpperHex(t[i + 4])

repair_url_escapes(s) ==
    LET s1 == ReSub(s, LAMBDA t, i :
                      IF /\ EscapedByte(t, i, {67, 68})                  \* [CD]
                         /\ EscapedByte(t, i + 5, {56, 57, 65, 66})      \* [89AB]
                      THEN 10 ELSE 0,
                    LAMBDA m : <<m[1]>> \o SubSeq(m, 4, 6) \o SubSeq(m, 9, 10))
    IN  ReSub(s1, LAMBDA t, i :
                IF /\ EscapedByte(t, i, {69})                            \* E
                   /\ EscapedByte(t, i + 5, {56, 57, 65, 66})
                   /\ EscapedByte(t, i + 10, {56, 57, 65, 66})
                THEN 15 ELSE 0,
              LAMBDA m : <<m[1]>> \o SubSeq(m, 4, 6) \o SubSeq(m, 9, 11) \o SubSeq(m, 14, 15))

\* [-_+*|%0-9]
IsDetachable(c) == c \in {45, 95, 43, 42, 124, 37} \/ InRange(c, 48, 57)

RECURSIVE DetachableRun(_, _)
DetachableRun(t, i) ==
    IF i <= Len(t) /\ IsDetachable(t[i]) THEN 1 + DetachableRun(t, i + 1) ELSE 0

\* repair_tok_punct_arabic_match and repair_tok_arabic_punct_match
repair_arabic_tokenization(s) ==
    LET s1 == ReSub(s, LAMBDA t, i :
                      LET r == DetachableRun(t, i)
                      IN  IF r > 0 /\ i + r <= Len(t) /\ InRange(t[i + r], \h0600, \h06FF)
                          THEN r + 1 ELSE 0,
                    LAMBDA m : SubSeq(m, 1, Len(m) - 1) \o <<32, m[Len(m)]>>)
    IN  ReSub(s1, LAMBDA t, i :
                IF InRange(t[i], \h0600, \h06FF) /\ DetachableRun(t, i + 1) > 0
                THEN 1 + DetachableRun(t, i + 1) ELSE 0,
              LAMBDA m : <<m[1], 32>> \o Tail(m))

(***************************************************************************)
(* Look-alike correction.  self.look_alike_dict holds both the entries of  *)
(* the look-alike table, keyed by source script, target script and         *)
(* character, and the counters n-to-Latin, n-to-Cyrillic, n-split and      *)
(* n-unchanged that correct_look_alikes keeps; they are the fields `map'   *)
(* and `n' of the record la, whose fields unchanged, split and url are     *)
(* look_alike_unchanged_dict, look_alike_split_dict, look_alike_url_dict.  *)
(***************************************************************************)
look_alike_scripts == <<"Latin", "Greek", "Cyrillic">>

char_script(char) ==
    LET char_type_vector == char_type_vector_dict(char)
    IN  IF Overlaps(char_type_vector, bit_vector.char_is_latin) THEN "Latin"
        ELSE IF Overlaps(char_type_vector, bit_vector.char_is_greek) THEN "Greek"
        ELSE IF Overlaps(char_type_vector, bit_vector.char_is_cyrillic) THEN "Cyrillic"
        ELSE "None"

IsLookAlikeScript(script) == \E n \in DOMAIN look_alike_scripts : look_alike_scripts[n] = script

\* the loop of tokenize_mixed_script_tokens from the character at index i on
\* (position = i - 1); -1 stands for the IndexError of orig_token[position+1]
\* read past the end of the token, which ends the call
RECURSIVE TokenizeFrom(_, _, _, _, _)
\* the loop asking for one character, not three, from the position on
TokenizeFrom_one_left(orig_token, i, script, script_start, last_char_is_punctuation) ==
    IF i > Len(orig_token) THEN <<>>
    ELSE LET char == orig_token[i]
             position == i - 1
         IN  IF char \in {46, 47, 95, 45}                    \* . / _ -
             THEN <<char>> \o TokenizeFrom(orig_token, i + 1, script, script_start, TRUE)
             ELSE LET new_script == char_script(char)
                      reads_next == /\ new_script # script
                                    /\ position - script_start >= 3
                                    /\ Len(orig_token) - position >= 1
                                    /\ ~last_char_is_punctuation
                                    /\ IsLookAlikeScript(script)
                                    /\ IsLookAlikeScript(new_script)
                      split == /\ reads_next
                               /\ new_script = char_script(orig_token[i + 1])
                  IN  IF reads_next /\ i + 1 > Len(orig_token) THEN <<-1>>
                      ELSE (IF split THEN <<32>> ELSE <<>>) \o <<char>>
                           \o TokenizeFrom(orig_token, i + 1, new_script,
                                           IF new_script # script THEN position
                                           ELSE script_start,
                                           FALSE)

TokenizeFrom(orig_token, i, script, script_start, last_char_is_punctuation) ==
    IF i > Len(orig_token) THEN <<>>
    ELSE LET char == orig_token[i]
             position == i - 1
         IN  IF char \in {46, 47, 95, 45}                    \* . / _ -
             THEN <<char>> \o TokenizeFrom(orig_token, i + 1, script, script_start, TRUE)
             ELSE LET new_script == char_script(char)
                      reads_next == /\ new_script # script
                                    /\ position - script_start >= 3
                                    /\ Len(orig_token) - position >= 3
                                    /\ ~last_char_is_punctuation
                                    /\ IsLookAlikeScript(script)
                                    /\ IsLookAlikeScript(new_script)
                      split == /\ reads_next
                               /\ new_script = char_script(orig_token[i + 1])
                  IN  IF reads_next /\ i + 1 > Len(orig_token) THEN <<-1>>
                      ELSE (IF split THEN <<32>> ELSE <<>>) \o <<char>>
                           \o TokenizeFrom(orig_token, i + 1, new_script,
                                           IF new_script # script THEN position
                                           ELSE script_start,
                                           FALSE)

tokenize_mixed_script_tokens(orig_token) == TokenizeFrom(orig_token, 1, "None", 0, FALSE)

IsAsciiLetter(c) == InRange(c, 65, 90) \/ InRange(c, 97, 122)

\* [-_./0-9] and [-_./#0-9]
IsUrlPunct(c, hash) ==
    c \in {45, 95, 46, 47} \/ InRange(c, 48, 57) \/ (hash /\ c = 35)

TopLevelDomains ==
    { <<98, 103>>, <<98, 121>>, <<109, 101>>, <<109, 107>>, <<107, 103>>, <<107, 122>>,
      <<114, 115>>, <<114, 117>>, <<116, 106>>, <<116, 109>>, <<117, 97>>, <<117, 122>>,
      <<99, 111, 109>>, <<105, 110, 102, 111>> }

\* the two patterns of is_mixed_script_url: a Latin host with a Cyrillic
\* path (case ignored), or a Cyrillic host.  a is the index of the first
\* character of the host, d that of the dot before the domain suffix.
is_mixed_script_url(s) ==
    LET end == IF Len(s) > 0 /\ s[Len(s)] = 10 THEN {Len(s) - 1, Len(s)} ELSE {Len(s)}
        starts(fold) ==
            {1} \cup {Len(p) + 1 : p \in {q \in { <<104, 116, 116, 112, 58, 47, 47>>,
                                                  <<104, 116, 116, 112, 115, 58, 47, 47>> } :
                                             IF fold THEN LitAtFold(s, 1, q) ELSE LitAt(s, 1, q)}}
        latin_host ==
            \E a \in starts(TRUE), d \in 1..Len(s), tld \in TopLevelDomains, e \in end :
               /\ a <= Len(s) /\ a < d
               /\ IsAsciiLetter(s[a])
               /\ \A j \in (a + 1)..(d - 1) : IsUrlPunct(s[j], FALSE) \/ IsAsciiLetter(s[j])
               /\ s[d] = 46
               /\ LitAtFold(s, d + 1, tld \o <<47>>)
               /\ d + Len(tld) + 2 <= e
               /\ \A j \in (d + Len(tld) + 2)..e :
                     IsUrlPunct(s[j], TRUE) \/ InRange(s[j], \h0400, \h04FF)
        cyrillic_host ==
            \E a \in starts(FALSE), d \in 1..Len(s), tld \in TopLevelDomains, e \in end :
               /\ a <= Len(s) /\ a < d
               /\ InRange(s[a], \h0400, \h04FF)
               /\ \A j \in (a + 1)..(d - 1) :
                     IsUrlPunct(s[j], FALSE) \/ InRange(s[j], \h0400, \h04FF)
               /\ s[d] = 46
               /\ LitAt(s, d + 1, tld)
               /\ d + Len(tld) = e
    IN  latin_host \/ cyrillic_host

\* self.look_alike_dict.get(f'{source_script} {target_script} {char}', char)
LookAlike(la, source_script, target_script, char) ==
    IF <<source_script, target_script, char>> \in DOMAIN la.map
    THEN la.map[<<source_script, target_script, char>>]
    ELSE char

map_look_alikes_to_script(la, s, source_script, target_script) ==
    [i \in 1..Len(s) |-> LookAlike(la, source_script, target_script, s[i])]

RomanNumeralTokens ==
    { tens \o ones :
        tens \in { <<>>, <<88>>, <<88, 88>>, <<88, 88, 88>>, <<88, 76>>, <<76>>, <<76, 88>>,
                   <<76, 88, 88>>, <<76, 88, 88, 88>>, <<88, 67>> },
        ones \in { <<>>, <<73>>, <<73, 73>>, <<73, 73, 73>>, <<73, 86>>, <<86>>, <<86, 73>>,
                   <<86, 73, 73>>, <<86, 73, 73, 73>>, <<73, 88>> } }

\* the list cyr_token is compared with in correct_look_alikes, with the code
\* points its string literals hold in the source file
CyrillicWordTokens ==
    { <<\h201D, \h00F4, \h2014, \h00C4>>, <<\h201D, \h00F2, \h2014, \h00C4>>,
      <<\h201D, \h00F4, \h2014, \h00C4, \h2014, \h00F1>>,
      <<\h2014, \h00C5, \h2014, \h00F1>>, <<\h2013, \h00B0, \h2014, \h00F1>>,
      <<\h2014, \h00F1, \h2014, \h00C5>>, <<\h2013, \h00DC, \h2014, \h00C5>>,
      <<\h2014, \h00F1, \h2014, \h00C5, \h2014, \h00F1>>,
      <<\h2014, \h00F1, \h2014, \h00C4, \h2014, \h00F1>> }

\* stat_dict[script] and stat_dict[f'{script} {target_script}'] of one token
ScriptCount(orig_token, script) ==
    Cardinality({i \in 1..Len(orig_token) : char_script(orig_token[i]) = script})

LookAlikeCount(la, orig_token, script, target_script) ==
    Cardinality({i \in 1..Len(orig_token) :
                    /\ char_script(orig_token[i]) = script
                    /\ <<script, target_script, orig_token[i]>> \in DOMAIN la.map})

NScripts(orig_token) ==
    Cardinality({n \in DOMAIN look_alike_scripts :
                    ScriptCount(orig_token, look_alike_scripts[n]) >= 1})

\* the decision with rule (a) left out: a token is retargeted only by the
\* single-character rule and the lists of known tokens
TargetScript_without_rule_a(la, orig_token) ==
    LET Decide(latin, cyrillic, cyrillic_latin, latin_cyrillic, lat_token, cyr_token) ==
            IF NScripts(orig_token) < 2 THEN "None"
            ELSE IF cyrillic = 1 /\ cyrillic_latin = 1 /\ latin >= 3 THEN "Latin"
            ELSE IF latin = 1 /\ latin_cyrillic = 1 /\ cyrillic >= 3 THEN "Cyrillic"
            ELSE IF cyr_token \in CyrillicWordTokens THEN "Cyrillic"
            ELSE IF \/ lat_token \in {<<83, 112, 65>>, <<85, 83, 65>>}
                    \/ Len(orig_token) >= 2 /\ lat_token \in RomanNumeralTokens
                 THEN "Latin"
            ELSE "None"
    IN  Decide(ScriptCount(orig_token, "Latin"),
               ScriptCount(orig_token, "Cyrillic"),
               LookAlikeCount(la, orig_token, "Cyrillic", "Latin"),
               LookAlikeCount(la, orig_token, "Latin", "Cyrillic"),
               map_look_alikes_to_script(la, orig_token, "Cyrillic", "Latin"),
               map_look_alikes_to_script(la, orig_token, "Latin", "Cyrillic"))

\* the decision with the single-character rule left out
TargetScript_without_rule_b(la, orig_token) ==
    LET Decide(latin, cyrillic, cyrillic_latin, latin_cyrillic, lat_token, cyr_token) ==
            IF NScripts(orig_token) < 2 THEN "None"
            ELSE IF cyrillic_latin = cyrillic /\ latin_cyrillic < latin THEN "Latin"
            ELSE IF latin_cyrillic = latin /\ cyrillic_latin < cyrillic THEN "Cyrillic"
            ELSE IF cyr_token \in CyrillicWordTokens THEN "Cyrillic"
            ELSE IF \/ lat_token \in {<<83, 112, 65>>, <<85, 83, 65>>}
                    \/ Len(orig_token) >= 2 /\ lat_token \in RomanNumeralTokens
                 THEN "Latin"
            ELSE "None"
    IN  Decide(ScriptCount(orig_token, "Latin"),
               ScriptCount(orig_token, "Cyrillic"),
               LookAlikeCount(la, orig_token, "Cyrillic", "Latin"),
               LookAlikeCount(la, orig_token, "Latin", "Cyrillic"),
               map_look_alikes_to_script(la, orig_token, "Cyrillic", "Latin"),
               map_look_alikes_to_script(la, orig_token, "Latin", "Cyrillic"))

\* the script the token is retargeted to, "None" if there is none
TargetScript(la, orig_token) ==
    LET Decide(latin, cyrillic, cyrillic_latin, latin_cyrillic, lat_token, cyr_token) ==
            IF NScripts(orig_token) < 2 THEN "None"
            ELSE IF cyrillic_latin = cyrillic /\ latin_cyrillic < latin THEN "Latin"
            ELSE IF latin_cyrillic = latin /\ cyrillic_latin < cyrillic THEN "Cyrillic"
            ELSE IF cyrillic = 1 /\ cyrillic_latin = 1 /\ latin >= 3 THEN "Latin"
            ELSE IF latin = 1 /\ latin_cyrillic = 1 /\ cyrillic >= 3 THEN "Cyrillic"
            ELSE IF cyr_token \in CyrillicWordTokens THEN "Cyrillic"
            ELSE IF \/ lat_token \in {<<83, 112, 65>>, <<85, 83, 65>>}       \* SpA, USA
                    \/ Len(orig_token) >= 2 /\ lat_token \in RomanNumeralTokens
                 THEN "Latin"
            ELSE "None"
    IN  Decide(ScriptCount(orig_token, "Latin"),
               ScriptCount(orig_token, "Cyrillic"),
               LookAlikeCount(la, orig_token, "Cyrillic", "Latin"),
               LookAlikeCount(la, orig_token, "Latin", "Cyrillic"),
               map_look_alikes_to_script(la, orig_token, "Cyrillic", "Latin"),
               map_look_alikes_to_script(la, orig_token, "Latin", "Cyrillic"))

\* the body of the loop of correct_look_alikes for one token
CorrectToken(la, orig_token) ==
    LET Outcome(target_script, retok_orig_token, mixed_token, mixed_script_url) ==
            LET token == IF target_script # "None"
                         THEN [i \in 1..Len(orig_token) |->
                                 LookAlike(la, char_script(orig_token[i]), target_script,
                                           orig_token[i])]
                         ELSE retok_orig_token
                key == IF target_script # "None" THEN "n-to-" \o target_script
                       ELSE IF retok_orig_token # orig_token THEN "n-split"
                       ELSE IF mixed_token THEN "n-unchanged"
                       ELSE "none"
                kept == mixed_token /\ token = orig_token
                url == kept /\ mixed_script_url
            IN  [ token |-> token,
                  la |-> [ map |-> la.map,
                           n |-> IF key = "none" THEN la.n
                                 ELSE [la.n EXCEPT ![key] = @ + 1],
                           split |-> IF /\ target_script = "None"
                                        /\ retok_orig_token # orig_token
                                        /\ orig_token \notin DOMAIN la.split
                                     THEN (orig_token :> retok_orig_token) @@ la.split
                                     ELSE la.split,
                           url |-> IF url THEN la.url \cup {orig_token} ELSE la.url,
                           unchanged |-> IF kept /\ ~url
                                         THEN (orig_token :>
                                                 (IF orig_token \in DOMAIN la.unchanged
                                                  THEN la.unchanged[orig_token] ELSE 0) + 1)
                                              @@ la.unchanged
                                         ELSE la.unchanged ] ]
    IN  Outcome(TargetScript(la, orig_token), tokenize_mixed_script_tokens(orig_token),
                NScripts(orig_token) >= 2, is_mixed_script_url(orig_token))

\* \s of a str pattern
IsSpace(c) ==
    \/ InRange(c, 9, 13) \/ InRange(c, 28, 32) \/ c \in {\h0085, \h00A0, \h1680}
    \/ InRange(c, \h2000, \h200A) \/ c \in {\h2028, \h2029, \h202F, \h205F, \h3000}

\* re.match(r'(\s*)(\S+)(.*)$', s): the token is the first run of characters
\* that are not white space; `.' does not match a line feed, and $ matches at
\* the end and before a final line feed, which group 3 then leaves out.
RECURSIVE correct_look_alikes(_, _)
correct_look_alikes(s, la) ==
    LET nonspace == {i \in 1..Len(s) : ~IsSpace(s[i])}
    IN  IF nonspace = {} THEN [s |-> s, la |-> la]
        ELSE LET p == CHOOSE i \in nonspace : \A j \in nonspace : i <= j
                 q == CHOOSE i \in p..Len(s) :
                         /\ \A j \in p..i : j \in nonspace
                         /\ i + 1 \notin nonspace
                 after == SubSeq(s, q + 1, Len(s))
                 feeds == {i \in 1..Len(after) : after[i] = 10}
             IN  IF ~(feeds \subseteq {Len(after)}) THEN [s |-> s, la |-> la]
                 ELSE Then(CorrectToken(la, SubSeq(s, p, q)), LAMBDA done :
                        Then(correct_look_alikes(
                                IF feeds = {} THEN after
                                ELSE SubSeq(after, 1, Len(after) - 1), done.la),
                             LAMBDA rest :
                                [ s |-> SubSeq(s, 1, p - 1) \o done.token \o rest.s,
                                  la |-> rest.la ]))

(***************************************************************************)
(* The Pipeline Orchestrator.  The dictionary ht is a record: skip holds   *)
(* the SKIP-<name> entries (its domain is the set of names with an entry), *)
(* call and count the CALL-<name> and COUNT-<name> counters (0 stands for  *)
(* an absent key), loc the COUNT-<name>-<count> entries as triples, lines  *)
(* is NUMBER-OF-LINES and count_all is COUNT-ALL.                          *)
(***************************************************************************)
all_norm_elems ==
    << "repair-encoding-errors", "del-surrogate", "del-zero-width", "del-ctrl-char",
       "del-tatweel", "del-arabic-diacr", "del-hebrew-diacr", "core-compat", "pres-form",
       "ligatures", "signs-and-symbols", "cjk", "width", "font", "small", "vertical",
       "enclosure", "hangul", "repair-combining", "combining-compose",
       "combining-decompose", "punct", "punct-dash", "punct-arabic", "punct-cjk",
       "punct-greek", "punct-misc-f", "space", "digit", "arabic-char", "farsi-char",
       "pashto-char", "georgian-char", "look-alike", "repair-xml", "repair-url-escapes",
       "repair-token" >>

default_norm_elems ==
    << "repair-encoding-errors", "del-surrogate", "del-ctrl-char", "del-tatweel",
       "core-compat", "pres-form", "hangul", "repair-combining", "combining-compose",
       "combining-decompose", "repair-xml", "repair-url-escapes" >>

Elems(list) == {list[n] : n \in DOMAIN list}

\* the calls of ncs_group with those of width and ligatures in each other's place
StagesWidthFirst ==
    << <<"repair-encoding-errors", "repair_encoding_errors">>,
       <<"del-surrogate", "delete_surrogates">>,
       <<"del-ctrl-char", "delete_control_characters">>,
       <<"del-zero-width", "delete_zero_width_characters">>,
       <<"del-tatweel", "delete_arabic_tatweel">>,
       <<"del-arabic-diacr", "delete_arabic_diacritics">>,
       <<"del-hebrew-diacr", "delete_hebrew_diacritics">>,
       <<"core-compat", "normalize_core_compat_characters">>,
       <<"pres-form", "normalize_arabic_pres_form_characters">>,
       <<"width", "normalize_half_and_full_width_characters">>,
       <<"signs-and-symbols", "normalize_signs_and_symbols">>,
       <<"cjk", "normalize_cjk">>,
       <<"ligatures", "normalize_ligatures">>,
       <<"font", "normalize_font_characters">>,
       <<"small", "normalize_small_characters">>,
       <<"vertical", "normalize_vertical_characters">>,
       <<"enclosure", "normalize_enclosure_characters">>,
       <<"hangul", "normalize_hangul">>,
       <<"repair-combining", "repair_combining_modifiers_with_nukta">>,
       <<"combining-compose", "apply_combining_modifiers_compose">>,
       <<"combining-decompose", "apply_combining_modifiers_decompose">>,
       <<"punct", "normalize_punctuation">>,
       <<"punct-arabic", "normalize_arabic_punctuation">>,
       <<"punct-cjk", "normalize_cjk_punctuation">>,
       <<"punct-greek", "normalize_greek_punctuation">>,
       <<"punct-misc-f", "normalize_misc_f_punctuation">>,
       <<"punct-dash", "normalize_dash_punctuation">>,
       <<"space", "normalize_non_zero_spaces">>,
       <<"digit", "map_digits_to_ascii">>,
       <<"farsi-char", "normalize_farsi_characters">>,
       <<"pashto-char", "normalize_pashto_characters">>,
       <<"arabic-char", "normalize_arabic_characters">>,
       <<"georgian-char", "normalize_georgian_characters">>,
       <<"look-alike", "correct_look_alikes">>,
       <<"repair-xml", "repair_xml">>,
       <<"repair-url-espaces", "repair_url_escapes">>,
       <<"repair-token", "repair_arabic_tokenization">> >>

\* the calls of ncs_group in norm_clean_string, in the order of the code, each
\* with the group name and the function it passes
Stages ==
    << <<"repair-encoding-errors", "repair_encoding_errors">>,
       <<"del-surrogate", "delete_surrogates">>,
       <<"del-ctrl-char", "delete_control_characters">>,
       <<"del-zero-width", "delete_zero_width_characters">>,
       <<"del-tatweel", "delete_arabic_tatweel">>,
       <<"del-arabic-diacr", "delete_arabic_diacritics">>,
       <<"del-hebrew-diacr", "delete_hebrew_diacritics">>,
       <<"core-compat", "normalize_core_compat_characters">>,
       <<"pres-form", "normalize_arabic_pres_form_characters">>,
       <<"ligatures", "normalize_ligatures">>,
       <<"signs-and-symbols", "normalize_signs_and_symbols">>,
       <<"cjk", "normalize_cjk">>,
       <<"width", "normalize_half_and_full_width_characters">>,
       <<"font", "normalize_font_characters">>,
       <<"small", "normalize_small_characters">>,
       <<"vertical", "normalize_vertical_characters">>,
       <<"enclosure", "normalize_enclosure_characters">>,
       <<"hangul", "normalize_hangul">>,
       <<"repair-combining", "repair_combining_modifiers_with_nukta">>,
       <<"combining-compose", "apply_combining_modifiers_compose">>,
       <<"combining-decompose", "apply_combining_modifiers_decompose">>,
       <<"punct", "normalize_punctuation">>,
       <<"punct-arabic", "normalize_arabic_punctuation">>,
       <<"punct-cjk", "normalize_cjk_punctuation">>,
       <<"punct-greek", "normalize_greek_punctuation">>,
       <<"punct-misc-f", "normalize_misc_f_punctuation">>,
       <<"punct-dash", "normalize_dash_punctuation">>,
       <<"space", "normalize_non_zero_spaces">>,
       <<"digit", "map_digits_to_ascii">>,
       <<"farsi-char", "normalize_farsi_characters">>,
       <<"pashto-char", "normalize_pashto_characters">>,
       <<"arabic-char", "normalize_arabic_characters">>,
       <<"georgian-char", "normalize_georgian_characters">>,
       <<"look-alike", "correct_look_alikes">>,
       <<"repair-xml", "repair_xml">>,
       <<"repair-url-espaces", "repair_url_escapes">>,
       <<"repair-token", "repair_arabic_tokenization">> >>

GroupNames == {Stages[n][1] : n \in DOMAIN Stages}

\* the condition on self.lv (and lang_code) under which norm_clean_string
\* reaches the ncs_group call of the group
Gate(group_name, self_lv, lang_code) ==
    LET has(flag) == Overlaps(self_lv, flag)
    IN  CASE group_name = "repair-encoding-errors" -> has(bit_vector.char_is_encoding_repair_anchor)
          [] group_name = "del-surrogate" -> has(bit_vector.char_is_surrogate)
          [] group_name = "del-ctrl-char" -> has(bit_vector.char_is_deletable_control_character)
          [] group_name = "del-zero-width" -> has(bit_vector.char_is_zero_width_character)
          [] group_name = "del-tatweel" -> has(bit_vector.char_is_arabic_tatweel)
          [] group_name = "del-arabic-diacr" -> has(bit_vector.char_is_deletable_arabic_diacritic)
          [] group_name = "del-hebrew-diacr" -> has(bit_vector.char_is_deletable_hebrew_diacritic)
          [] group_name = "core-compat" -> has(bit_vector.char_is_core_compatibility)
          [] group_name = "pres-form" -> has(bit_vector.char_is_arabic_presentation_form)
          [] group_name = "ligatures" -> has(bit_vector.char_is_decomposable_ligature)
          [] group_name = "signs-and-symbols" -> has(bit_vector.char_is_decomposable_sign_symbol)
          [] group_name = "cjk" -> has(bit_vector.char_is_decomposable_cjk)
          [] group_name = "width" -> has(bit_vector.char_is_fullwidth_or_halfwidth)
          [] group_name \in {"font", "small", "vertical"} -> has(bit_vector.char_is_font_small_vertical)
          [] group_name = "enclosure" -> has(bit_vector.char_is_decomposable_enclosure)
          [] group_name = "hangul" -> has(bit_vector.char_is_mappable_hangul)
          [] group_name = "repair-combining" -> has(bit_vector.char_is_nukta)
          [] group_name = "combining-compose" ->
               /\ has(bit_vector.char_is_composable_anchor_with_combining)
               /\ has(bit_vector.char_is_composable_combining_diacritic)
          [] group_name = "combining-decompose" -> has(bit_vector.char_is_decomposable_with_combining)
          [] group_name = "punct" -> has(bit_vector.char_is_core_compatibility)
          [] group_name = "punct-arabic" -> has(bit_vector.char_is_decomposable_arabic_punctuation)
          [] group_name = "punct-cjk" -> has(bit_vector.char_is_decomposable_cjk_punctuation)
          [] group_name = "punct-greek" -> has(bit_vector.char_is_decomposable_greek_punctuation)
          [] group_name = "punct-misc-f" -> has(bit_vector.char_is_decomposable_misc_f_punctuation)
          [] group_name = "punct-dash" -> has(bit_vector.char_is_decomposable_dash)
          [] group_name = "space" -> has(bit_vector.char_is_decomposable_non_zero_space)
          [] group_name = "digit" -> has(bit_vector.char_is_mappable_decimal_digit)
          [] group_name = "farsi-char" ->
               /\ has(bit_vector.char_is_arabic) /\ lang_code = "fas"
               /\ has(bit_vector.char_is_mappable_in_farsi) \/ has(bit_vector.char_is_arabic_presentation_form)
          [] group_name = "pashto-char" ->
               /\ has(bit_vector.char_is_arabic) /\ lang_code # "fas" /\ lang_code = "pas"
               /\ has(bit_vector.char_is_mappable_in_pashto) \/ has(bit_vector.char_is_arabic_presentation_form)
          [] group_name = "arabic-char" ->
               /\ has(bit_vector.char_is_arabic) /\ lang_code # "fas" /\ lang_code # "pas"
               /\ has(bit_vector.char_is_mappable_in_arabic) \/ has(bit_vector.char_is_arabic_presentation_form)
          [] group_name = "georgian-char" -> has(bit_vector.char_is_georgian)
          [] group_name = "look-alike" ->
               LET script_lvs == <<bit_vector.char_is_latin, bit_vector.char_is_greek, bit_vector.char_is_cyrillic>>
               IN  Cardinality({n \in DOMAIN script_lvs : has(script_lvs[n])}) >= 2
          [] group_name = "repair-xml" -> has(bit_vector.char_is_ampersand) /\ has(bit_vector.char_is_semicolon)
          [] group_name = "repair-url-espaces" -> has(bit_vector.char_is_percent_sign)
          [] group_name = "repair-token" ->
               /\ has(bit_vector.char_is_arabic)
               /\ has(bit_vector.char_is_detachable_from_token) \/ has(bit_vector.char_is_mappable_decimal_digit)
          [] OTHER -> FALSE

\* group_function(s): the string returned and the look-alike state left
GroupFunction(group_function, s, self_lv, la) ==
    IF group_function = "correct_look_alikes" THEN correct_look_alikes(s, la)
    ELSE [ la |-> la,
           s |-> CASE group_function = "repair_encoding_errors" -> repair_encoding_errors(s)
                   [] group_function = "delete_surrogates" -> delete_surrogates(s)
                   [] group_function = "delete_control_characters" -> delete_control_characters(s)
                   [] group_function = "delete_zero_width_characters" -> delete_zero_width_characters(s)
                   [] group_function = "delete_arabic_tatweel" -> delete_arabic_tatweel(s)
                   [] group_function = "delete_arabic_diacritics" -> delete_arabic_diacritics(s)
                   [] group_function = "delete_hebrew_diacritics" -> delete_hebrew_diacritics(s)
                   [] group_function = "normalize_core_compat_characters" -> normalize_core_compat_characters(s)
                   [] group_function = "normalize_arabic_pres_form_characters" -> normalize_arabic_pres_form_characters(s)
                   [] group_function = "normalize_ligatures" -> normalize_ligatures(s)
                   [] group_function = "normalize_signs_and_symbols" -> normalize_signs_and_symbols(s)
                   [] group_function = "normalize_cjk" -> normalize_cjk(s)
                   [] group_function = "normalize_half_and_full_width_characters" -> normalize_half_and_full_width_characters(s)
                   [] group_function = "normalize_font_characters" -> normalize_font_characters(s)
                   [] group_function = "normalize_small_characters" -> normalize_small_characters(s)
                   [] group_function = "normalize_vertical_characters" -> normalize_vertical_characters(s)
                   [] group_function = "normalize_enclosure_characters" -> normalize_enclosure_characters(s)
                   [] group_function = "normalize_hangul" -> normalize_hangul(s)
                   [] group_function = "repair_combining_modifiers_with_nukta" -> repair_combining_modifiers_with_nukta(s, self_lv)
                   [] group_function = "apply_combining_modifiers_compose" -> apply_combining_modifiers_compose(s)
                   [] group_function = "apply_combining_modifiers_decompose" -> apply_combining_modifiers_decompose(s)
                   [] group_function = "normalize_punctuation" -> normalize_punctuation(s)
                   [] group_function = "normalize_arabic_punctuation" -> normalize_arabic_punctuation(s)
                   [] group_function = "normalize_cjk_punctuation" -> normalize_cjk_punctuation(s)
                   [] group_function = "normalize_greek_punctuation" -> normalize_greek_punctuation(s)
                   [] group_function = "normalize_misc_f_punctuation" -> normalize_misc_f_punctuation(s)
                   [] group_function = "normalize_dash_punctuation" -> normalize_dash_punctuation(s)
                   [] group_function = "normalize_non_zero_spaces" -> normalize_non_zero_spaces(s)
                   [] group_function = "map_digits_to_ascii" -> map_digits_to_ascii(s, self_lv)
                   [] group_function = "normalize_farsi_characters" -> normalize_farsi_characters(s)
                   [] group_function = "normalize_pashto_characters" -> normalize_pashto_characters(s)
                   [] group_function = "normalize_arabic_characters" -> normalize_arabic_characters(s)
                   [] group_function = "normalize_georgian_characters" -> normalize_georgian_characters(s)
                   [] group_function = "repair_xml" -> repair_xml(s)
                   [] group_function = "repair_url_escapes" -> repair_url_escapes(s)
                   [] group_function = "repair_arabic_tokenization" -> repair_arabic_tokenization(s) ]

\* ht.get(f'SKIP-{group_name}', False)
Skipped(h, group_name) == group_name \in DOMAIN h.skip /\ h.skip[group_name]

\* increment_dict_count on the counters of one kind
increment_dict_count(counts, key) == [counts EXCEPT ![key] = @ + 1]

\* ncs_group reading the COUNT- entry of the group where it should read the
\* SKIP- entry
ncs_group_count_for_skip(s, h, la, group_name, group_function, loc_id, self_lv) ==
    IF h.count[group_name] > 0
    THEN [s |-> s, ht |-> h, la |-> la, invoked |-> FALSE]
    ELSE Then(GroupFunction(group_function, s, self_lv, la), LAMBDA r :
           [ s |-> r.s, la |-> r.la, invoked |-> TRUE,
             ht |-> IF r.s # s
                    THEN [h EXCEPT !.call = increment_dict_count(@, group_name),
                                    !.count = increment_dict_count(@, group_name),
                                    !.loc = IF loc_id # 0 /\ h.count[group_name] + 1 <= 20
                                            THEN @ \cup {<<group_name,
                                                           h.count[group_name] + 1, loc_id>>}
                                            ELSE @]
                    ELSE [h EXCEPT !.call = increment_dict_count(@, group_name)] ])

\* ncs_group without the limit of 20 on the examples it records
ncs_group_no_limit(s, h, la, group_name, group_function, loc_id, self_lv) ==
    IF Skipped(h, group_name)
    THEN [s |-> s, ht |-> h, la |-> la, invoked |-> FALSE]
    ELSE Then(GroupFunction(group_function, s, self_lv, la), LAMBDA r :
           [ s |-> r.s, la |-> r.la, invoked |-> TRUE,
             ht |-> IF r.s # s
                    THEN [h EXCEPT !.call = increment_dict_count(@, group_name),
                                    !.count = increment_dict_count(@, group_name),
                                    !.loc = IF loc_id # 0
                                            THEN @ \cup {<<group_name,
                                                           h.count[group_name] + 1, loc_id>>}
                                            ELSE @]
                    ELSE [h EXCEPT !.call = increment_dict_count(@, group_name)] ])

\* loc_id 0 stands for the empty loc_id
ncs_group(s, h, la, group_name, group_function, loc_id, self_lv) ==
    IF Skipped(h, group_name)
    THEN [s |-> s, ht |-> h, la |-> la, invoked |-> FALSE]
    ELSE Then(GroupFunction(group_function, s, self_lv, la), LAMBDA r :
           [ s |-> r.s, la |-> r.la, invoked |-> TRUE,
             ht |-> IF r.s # s
                    THEN [h EXCEPT !.call = increment_dict_count(@, group_name),
                                    !.count = increment_dict_count(@, group_name),
                                    !.loc = IF loc_id # 0 /\ h.count[group_name] + 1 <= 20
                                            THEN @ \cup {<<group_name,
                                                           h.count[group_name] + 1, loc_id>>}
                                            ELSE @]
                    ELSE [h EXCEPT !.call = increment_dict_count(@, group_name)] ])

\* stage n of norm_clean_string, entered with the record st; run records
\* each stage: the text before it, whether its gate was open, whether its
\* SKIP entry was set, whether the function has been invoked, the text after
RunStage(st, n, self_lv, lang_code, loc_id) ==
    LET Record(group_name, gated, r) ==
            [ s |-> r.s, ht |-> r.ht, la |-> r.la,
              run |-> Append(st.run,
                        [ group |-> group_name, fn |-> Stages[n][2],
                          before |-> st.s, gated |-> gated,
                          skip |-> Skipped(st.ht, group_name),
                          invoked |-> r.invoked, after |-> r.s ]) ]
    IN  Then(Gate(Stages[n][1], self_lv, lang_code), LAMBDA gated :
           Then(IF gated
                THEN ncs_group(st.s, st.ht, st.la, Stages[n][1], Stages[n][2],
                               loc_id, self_lv)
                ELSE [s |-> st.s, ht |-> st.ht, la |-> st.la, invoked |-> FALSE],
                LAMBDA r : Record(Stages[n][1], gated, r)))

\* the stages lo..hi in order, halving the range
RECURSIVE RunStages(_, _, _, _, _, _)
RunStages(st, lo, hi, self_lv, lang_code, loc_id) ==
    IF lo = hi THEN RunStage(st, lo, self_lv, lang_code, loc_id)
    ELSE Then(RunStages(st, lo, (lo + hi) \div 2, self_lv, lang_code, loc_id),
              LAMBDA st1 : RunStages(st1, (lo + hi) \div 2 + 1, hi,
                                     self_lv, lang_code, loc_id))

\* norm_clean_string counting NUMBER-OF-LINES where it counts COUNT-ALL, for
\* the changed units only
norm_clean_string_lines_if_changed(s, h, la, lang_code, loc_id) ==
    LET Finish(self_lv, st) ==
        [ s |-> ReSub(st.s, LAMBDA t, i :
                         LET r == RunLen(t, i, 32)
                         IN  IF r > 0 /\ i + r <= Len(t) /\ t[i + r] \in {9, 10}
                             THEN r ELSE 0, LAMBDA m : <<>>),
          ht |-> IF st.s # s THEN [st.ht EXCEPT !.count_all = @ + 1, !.lines = @ + 1]
                 ELSE st.ht,
          la |-> st.la, lv |-> self_lv, run |-> st.run ]
    IN  Then(set_lv(s), LAMBDA self_lv :
           Then(RunStages([ s |-> s, ht |-> h, la |-> la, run |-> <<>> ],
                          1, Len(Stages), self_lv, lang_code, loc_id),
                LAMBDA st : Finish(self_lv, st)))

norm_clean_string(s, h, la, lang_code, loc_id) ==
    LET Finish(self_lv, st) ==
        [ s |-> ReSub(st.s, LAMBDA t, i :
                         LET r == RunLen(t, i, 32)
                         IN  IF r > 0 /\ i + r <= Len(t) /\ t[i + r] \in {9, 10}
                             THEN r ELSE 0, LAMBDA m : <<>>),
          ht |-> IF st.s # s THEN [st.ht EXCEPT !.count_all = @ + 1] ELSE st.ht,
          la |-> st.la, lv |-> self_lv, run |-> st.run ]
    IN  Then(set_lv(s), LAMBDA self_lv :
           Then(RunStages([ s |-> s, ht |-> [h EXCEPT !.lines = @ + 1], la |-> la,
                            run |-> <<>> ], 1, Len(Stages), self_lv, lang_code, loc_id),
                LAMBDA st : Finish(self_lv, st)))

(***************************************************************************)
(* The look-alike table.  load_look_alike_file reads data/look-alikes.txt; *)
(* LookAlikeLines are lines of its section of identical-looking            *)
(* characters, each a list of characters.                                  *)
(***************************************************************************)
LookAlikeLines ==
    << <<97, \h0430>>,                  \* a, Cyrillic a
       <<65, \h0391, \h0410>>,          \* A, Greek Alpha, Cyrillic A
       <<112, \h0440>>,                 \* p, Cyrillic er
       <<121, \h0443>>,                 \* y, Cyrillic u
       <<73, \h0399, \h0406>> >>        \* I, Greek Iota, Cyrillic I

\* the entries one line adds: script_dict keeps the first character of each
\* script, and every ordered pair of scripts with a character gives an entry
LookAlikeEntries(char_list) ==
    LET of(script) == {i \in DOMAIN char_list : char_script(char_list[i]) = script}
        first(script) == char_list[CHOOSE i \in of(script) : \A j \in of(script) : i <= j]
        pairs == {p \in (DOMAIN look_alike_scripts) \X (DOMAIN look_alike_scripts) :
                     /\ p[1] # p[2]
                     /\ of(look_alike_scripts[p[1]]) # {}
                     /\ of(look_alike_scripts[p[2]]) # {}}
    IN  [k \in {<<look_alike_scripts[p[1]], look_alike_scripts[p[2]],
                  first(look_alike_scripts[p[1]])>> : p \in pairs} |-> first(k[2])]

RECURSIVE LoadLines(_, _, _)
LoadLines(map, lines, n) ==
    IF n > Len(lines) THEN map
    ELSE LoadLines(LookAlikeEntries(lines[n]) @@ map, lines, n + 1)

\* the entries of self.look_alike_dict after load_look_alike_file
load_look_alike_file == LoadLines(<<>>, LookAlikeLines, 1)

(***************************************************************************)
(* Step selection.                                                         *)
(***************************************************************************)
\* for norm_elem in norm_elems: norm_step_dict[f'SKIP-{norm_elem}'] = value
RECURSIVE SetSkip(_, _, _, _)
SetSkip(norm_step_dict, norm_elems, value, n) ==
    IF n > Len(norm_elems) THEN norm_step_dict
    ELSE SetSkip((norm_elems[n] :> value) @@ norm_step_dict, norm_elems, value, n + 1)

\* build_norm_step_dict with the loop over skip after the loop over add
build_norm_step_dict_skip_last(base, skip, add) ==
    LET base_elems == IF base = "NONE" THEN <<>>
                      ELSE IF base = "ALL" THEN all_norm_elems
                      ELSE default_norm_elems
        norm_step_dict == [norm_elem \in Elems(all_norm_elems) |->
                             norm_elem \notin Elems(base_elems)]
    IN  SetSkip(SetSkip(norm_step_dict, add, FALSE, 1), skip, TRUE, 1)

build_norm_step_dict(base, skip, add) ==
    LET base_elems == IF base = "NONE" THEN <<>>
                      ELSE IF base = "ALL" THEN all_norm_elems
                      ELSE default_norm_elems
        norm_step_dict == [norm_elem \in Elems(all_norm_elems) |->
                             norm_elem \notin Elems(base_elems)]
    IN  SetSkip(SetSkip(norm_step_dict, skip, TRUE, 1), add, FALSE, 1)

\* An option string of the command line is a sequence of pieces: a piece is
\* a comma, a blank, or a word without commas and blanks.
RECURSIVE LStrip(_)
LStrip(s) == IF s # <<>> /\ Head(s) = " " THEN LStrip(Tail(s)) ELSE s

RECURSIVE RStrip(_)
RStrip(s) == IF s # <<>> /\ s[Len(s)] = " " THEN RStrip(SubSeq(s, 1, Len(s) - 1)) ELSE s

\* re.split(r',\s*', s): elem is the element collected so far
RECURSIVE SplitByComma(_, _)
SplitByComma(s, elem) ==
    IF s = <<>> THEN <<elem>>
    ELSE IF Head(s) = "," THEN <<elem>> \o SplitByComma(LStrip(Tail(s)), "")
    ELSE SplitByComma(Tail(s), elem \o Head(s))

listify_by_comma(s) ==
    IF \A i \in DOMAIN s : s[i] = " " THEN <<>> ELSE SplitByComma(RStrip(LStrip(s)), "")

IsIn(elem, list) == \E n \in DOMAIN list : list[n] = elem

\* main, from the parsed arguments to the dictionary ht: the lists, the
\* warnings logged and the SKIP entries set by the resolution loop
main_resolution(args) ==
    LET add_list == listify_by_comma(args.add) \o listify_by_comma(args.only)
        skip_list == listify_by_comma(args.skip) \o listify_by_comma(args.all_except)
        add_and_skip == SelectSeq(add_list, LAMBDA elem : IsIn(elem, skip_list))
        skip(norm_elem) ==
            IF IsIn(norm_elem, add_list) THEN FALSE
            ELSE IF IsIn(norm_elem, skip_list) THEN TRUE
            ELSE IF args.all > 0 \/ args.all_except # <<>> THEN FALSE
            ELSE IF args.only # <<>> THEN TRUE
            ELSE IF IsIn(norm_elem, default_norm_elems) THEN FALSE
            ELSE TRUE
    IN  [ add_list |-> add_list,
          skip_list |-> skip_list,
          warnings |->
              (IF args.all > 0 /\ args.all_except # <<>>
               THEN <<[kind |-> "ignore --all", elems |-> <<>>]>> ELSE <<>>)
              \o (IF args.only # <<>> /\ args.all_except # <<>>
                  THEN <<[kind |-> "--only as --add", elems |-> <<>>]>>
                  ELSE IF args.only # <<>> /\ args.all > 0
                  THEN <<[kind |-> "ignore --only", elems |-> <<>>]>>
                  ELSE <<>>)
              \o (IF add_and_skip # <<>>
                  THEN <<[kind |-> "add and skip", elems |-> add_and_skip]>> ELSE <<>>),
          norm_elems |-> SelectSeq(all_norm_elems, LAMBDA norm_elem : ~skip(norm_elem)),
          skip_elems |-> SelectSeq(all_norm_elems, skip),
          skip |-> [norm_elem \in {e \in Elems(all_norm_elems) : skip(e)} |-> TRUE],
          lang_code |-> IF args.lc = "fa" THEN "fas" ELSE args.lc ]

(***************************************************************************)
(* The state machine: an instance of Wildebeest, used as a library         *)
(* (build_norm_step_dict, norm_clean_string and the pass methods called by *)
(* a client such as the tests) or through main.                            *)
(***************************************************************************)
MaxLines == 2

\* the names that occur in the CALL-<name> and COUNT-<name> keys read or
\* written anywhere
CounterKeys == GroupNames \cup Elems(all_norm_elems)

\* ht = {}
EmptyHt ==
    [ skip |-> <<>>,
      call |-> [k \in CounterKeys |-> 0],
      count |-> [k \in CounterKeys |-> 0],
      loc |-> {},
      lines |-> 0,
      count_all |-> 0 ]

\* the four look-alike dictionaries as __init__ leaves them
EmptyLookAlike ==
    [ map |-> <<>>,
      n |-> [k \in {"n-to-Latin", "n-to-Cyrillic", "n-to-Greek", "n-split", "n-unchanged"}
               |-> 0],
      split |-> <<>>,
      url |-> {},
      unchanged |-> <<>> ]

\* wb = Wildebeest(): the instance as __init__ leaves it; no dictionary has
\* been built, nothing has been logged and no string has been returned
Wildebeest ==
    /\ lv = {}
    /\ look_alike = EmptyLookAlike
    /\ ht = EmptyHt
    /\ sel = [via |-> "none"]
    /\ log = <<>>
    /\ op = "__init__"
    /\ lang = ""
    /\ s_out = <<>>
    /\ run = <<>>

Init == Wildebeest /\ s_in = <<>>

\* ht = wb.build_norm_step_dict(base, skip, add), by a client of the library,
\* which builds its dictionary once, before it processes text
BuildNormStepDict(base, skip, add) ==
    /\ sel.via = "none"
    /\ ht' = [EmptyHt EXCEPT !.skip = build_norm_step_dict(base, skip, add)]
    /\ sel' = [via |-> "build_norm_step_dict", base |-> base, skip |-> skip, add |-> add]
    /\ op' = "build_norm_step_dict"
    /\ UNCHANGED <<lv, look_alike, log, lang, s_in, s_out, run>>

\* main, from the parsed arguments up to the call of norm_clean_lines
Main(args) ==
    /\ op = "__init__"
    /\ \E r \in {main_resolution(args)} :
           /\ ht' = [EmptyHt EXCEPT !.skip = r.skip]
           /\ sel' = [ via |-> "main", args |-> args, add |-> r.add_list,
                       skip |-> r.skip_list, norm_elems |-> r.norm_elems,
                       skip_elems |-> r.skip_elems ]
           /\ log' = log \o r.warnings
           /\ lang' = r.lang_code
    /\ look_alike' = [look_alike EXCEPT !.map = load_look_alike_file]
    /\ op' = "main"
    /\ UNCHANGED <<lv, s_in, s_out, run>>

\* wb.norm_clean_string(s, ht, lang_code=lang_code), by a client of the library
NormCleanString(s, lang_code) ==
    /\ sel.via # "main"
    /\ ht.lines < MaxLines
    /\ \E r \in {norm_clean_string(s, ht, look_alike, lang_code, 0)} :
           /\ lv' = r.lv
           /\ ht' = r.ht
           /\ look_alike' = r.la
           /\ s_out' = r.s
           /\ run' = r.run
    /\ s_in' = s
    /\ lang' = lang_code
    /\ op' = "norm_clean_string"
    /\ UNCHANGED <<sel, log>>

\* line.rstrip(" \n")
RECURSIVE RStripLine(_)
RStripLine(line) ==
    IF line # <<>> /\ line[Len(line)] \in {32, 10}
    THEN RStripLine(SubSeq(line, 1, Len(line) - 1))
    ELSE line

\* one iteration of the loop of norm_clean_lines, as main calls it: the line
\* number is the number of lines read so far, which is ht['NUMBER-OF-LINES']
NormCleanLines(line) ==
    /\ sel.via = "main"
    /\ ht.lines < MaxLines
    /\ \E r \in {norm_clean_string(RStripLine(line), ht, look_alike, lang, ht.lines + 1)} :
           /\ lv' = r.lv
           /\ ht' = r.ht
           /\ look_alike' = r.la
           /\ s_out' = r.s \o <<10>>
           /\ run' = r.run
    /\ s_in' = line
    /\ op' = "norm_clean_lines"
    /\ UNCHANGED <<sel, log, lang>>

\* a pass method called directly on the instance, as the tests do
CallPass(group_function, s) ==
    /\ \E r \in {GroupFunction(group_function, s, lv, look_alike)} :
           /\ s_out' = r.s
           /\ look_alike' = r.la
    /\ s_in' = s
    /\ op' = group_function
    /\ run' = <<>>
    /\ UNCHANGED <<lv, ht, sel, log, lang>>

\* Wildebeest.hangul_jamo_triple_to_syllable called directly, with arguments
\* that pass its assert statements
HangulJamoTripleToSyllable(leading_jamo, vowel_jamo, trailing_jamo) ==
    /\ hangul_jamo_triple_asserts(leading_jamo, vowel_jamo, trailing_jamo)
    /\ s_in' = leading_jamo \o vowel_jamo \o trailing_jamo
    /\ s_out' = hangul_jamo_triple_to_syllable(leading_jamo, vowel_jamo, trailing_jamo)
    /\ op' = "hangul_jamo_triple_to_syllable"
    /\ run' = <<>>
    /\ UNCHANGED <<lv, look_alike, ht, sel, log, lang>>

(***************************************************************************)
(* Inputs of the pipeline: units that reach the stages of norm_clean_string*)
(***************************************************************************)
Units ==
    { <<97, \h00AD, 98>>,                            \* a, soft hyphen, b
      <<37, 50, 53, 67, 51, 37, 50, 53, 65, 66>>,    \* %25C3%25AB
      <<1, 97>>,                                     \* control character, a
      <<\h20B9, \h096F, \h0966>>,                    \* rupee sign, Devanagari 9, 0
      <<\hFB01, \hFF21>>,                            \* fi ligature, fullwidth A
      <<112, \h0430, 121>>,                          \* p, Cyrillic a, y
      <<38, 97, 109, 112, 59, 97, 109, 112, 59>> }   \* &amp;amp;

\* kaf, alef maksura, -, Arabic-Indic 0: the unit of the language-specific stages
ArabicUnit == <<\h0643, \h0649, 45, \h0660>>

\* the calls norm_clean_string(s, ht, lang_code=...) of a client
LibraryCalls ==
    {<<s, "">> : s \in Units} \cup {<<ArabicUnit, lc>> : lc \in {"", "fas", "pas"}}

\* the arguments (base, skip, add) of build_norm_step_dict
Selections ==
    { <<"ALL", <<>>, <<>> >>,
      <<"ALL", <<"repair-url-escapes">>, <<>> >>,
      <<"DEFAULT", <<>>, <<>> >>,
      <<"DEFAULT", <<"del-ctrl-char">>, <<"digit">> >>,
      <<"NONE", <<>>, <<"digit", "look-alike">> >> }

\* command lines: --skip, --all and --lc
CommandLines ==
    { [add |-> <<>>, only |-> <<>>, skip |-> sk, all_except |-> <<>>, all |-> a, lc |-> l] :
        sk \in {<<>>, <<"repair-url-escapes">>}, a \in {0, 1}, l \in {"", "fa"} }

\* the lines of the input file of main
Lines == {s \o <<10>> : s \in Units \cup {ArabicUnit}}

DigitUnits == { <<\h20B9, \h096F, \h0966>>, <<\h0D66, 97, \h0D6F>> }

Next ==
    \/ \E x \in Selections : BuildNormStepDict(x[1], x[2], x[3])
    \/ \E args \in CommandLines : Main(args)
    \/ \E x \in LibraryCalls : NormCleanString(x[1], x[2])
    \/ \E line \in Lines : NormCleanLines(line)
    \/ \E s \in DigitUnits : CallPass("map_digits_to_ascii", s)

Spec == Init /\ [][Next]_vars

(***************************************************************************)
(* Properties of the pipeline.                                             *)
(***************************************************************************)
\* the name in all_norm_elems of the pass that runs the given function
PassName(group_function) ==
    IF group_function = "repair_url_escapes" THEN "repair-url-escapes"
    ELSE Stages[CHOOSE n \in DOMAIN Stages : Stages[n][2] = group_function][1]

\* the key under which ncs_group keeps the CALL- and COUNT- statistics of the
\* pass of the given name
StatKey(norm_elem) ==
    Stages[CHOOSE n \in DOMAIN Stages : PassName(Stages[n][2]) = norm_elem][1]

\* the if/elif chain on lang_code: the turn of the three language-specific
\* passes comes under their language code only
HasTurn(group_name, lang_code) ==
    CASE group_name = "farsi-char" -> lang_code = "fas"
      [] group_name = "pashto-char" -> lang_code = "pas"
      [] group_name = "arabic-char" -> lang_code \notin {"fas", "pas"}
      [] OTHER -> TRUE

\* the string the last call of norm_clean_string was given
Unit == IF op = "norm_clean_lines" THEN RStripLine(s_in) ELSE s_in

\* C1: gating causes no false negative: a stage whose pass is not skipped and
\* whose function would change the text as it stands at its turn has been
\* invoked
C1_NoFalseNegative ==
    \A n \in DOMAIN run :
        ( /\ ~Skipped(ht, PassName(run[n].fn))
          /\ HasTurn(run[n].group, lang)
          /\ GroupFunction(run[n].fn, run[n].before, lv, look_alike).s # run[n].before )
        => run[n].invoked

\* C2: a function is invoked only if its pass is not marked SKIP-<name> under
\* its name in all_norm_elems and its gate is open, and the CALL- and COUNT-
\* statistics of a skipped pass stay as they were when ht was built
C2_OnlyActiveAndGated ==
    /\ \A n \in DOMAIN run :
          run[n].invoked => run[n].gated /\ ~Skipped(ht, PassName(run[n].fn))
    /\ \A norm_elem \in Elems(all_norm_elems) :
          Skipped(ht, norm_elem) =>
              ht.call[StatKey(norm_elem)] = 0 /\ ht.count[StatKey(norm_elem)] = 0

\* C3: after set_lv(s) a flag overlaps lv exactly if some character of s has
\* been assigned that flag by the range or table classification
C3_FlagIffCategory ==
    op \in {"norm_clean_string", "norm_clean_lines"} =>
        \A name \in FlagNames :
            Overlaps(lv, FlagValue(name))
                <=> \E i \in DOMAIN Unit : name \in char_flags(Unit[i])

C10_FunctionOfS ==
    op = "map_digits_to_ascii" =>
        s_out = map_digits_to_ascii(s_in, UNION {FlagValue(name) : name \in FlagNames})

(***************************************************************************)
(* Step selection: build_norm_step_dict and main over lists of names that  *)
(* hold a default step, a non-default step and a name that is no step.     *)
(***************************************************************************)
MaxNames == 2

Bases == {"NONE", "DEFAULT", "ALL"}

StepNames == {"repair-xml", "digit", "bogus"}

\* the lists a client passes as skip and add
NameLists == UNION {[1..k -> StepNames] : k \in 0..MaxNames}

\* the values of --add, --only, --skip and --all-except
OptionStrings ==
    { <<>>, <<" ">>, <<"digit">>, <<"bogus">>, <<"digit", ",", " ", "repair-xml">> }

SelectCommandLines ==
    { [add |-> a, only |-> o, skip |-> sk, all_except |-> x, all |-> n, lc |-> ""] :
        a \in OptionStrings, o \in OptionStrings, sk \in OptionStrings,
        x \in OptionStrings, n \in {0, 1} }

\* Devanagari 0, &amp;amp;
SelectUnit == <<\h0966, 38, 97, 109, 112, 59, 97, 109, 112, 59>>

NextSelect ==
    \/ \E base \in Bases, skip \in NameLists, add \in NameLists :
          BuildNormStepDict(base, skip, add)
    \/ \E args \in SelectCommandLines : Main(args)
    \/ NormCleanString(SelectUnit, "")
    \/ NormCleanLines(SelectUnit \o <<10>>)

SpecSelect == Init /\ [][NextSelect]_vars

\* the steps ht does not mark as skipped
ActiveSteps == {norm_elem \in Elems(all_norm_elems) : ~Skipped(ht, norm_elem)}

\* C5: the active set is the base without the steps named in skip, plus the
\* steps named in add; for main, --only adds to add, --all-except to skip, and
\* the base is ALL with --all or --all-except, NONE with --only alone, DEFAULT
\* otherwise
C5_ActiveSet ==
    LET Members(base) == CASE base = "NONE" -> {}
                           [] base = "ALL" -> Elems(all_norm_elems)
                           [] base = "DEFAULT" -> Elems(default_norm_elems)
        Resolved(base, skip, add) ==
            {e \in Elems(all_norm_elems) : (e \in Members(base) /\ e \notin skip) \/ e \in add}
        MainBase(args) == IF args.all > 0 \/ args.all_except # <<>> THEN "ALL"
                          ELSE IF args.only # <<>> THEN "NONE"
                          ELSE "DEFAULT"
    IN  /\ sel.via = "build_norm_step_dict" =>
              ActiveSteps = Resolved(sel.base, Elems(sel.skip), Elems(sel.add))
        /\ sel.via = "main" =>
              /\ ActiveSteps =
                    Resolved(MainBase(sel.args),
                             Elems(listify_by_comma(sel.args.skip))
                                 \cup Elems(listify_by_comma(sel.args.all_except)),
                             Elems(listify_by_comma(sel.args.add))
                                 \cup Elems(listify_by_comma(sel.args.only)))
              /\ Elems(sel.norm_elems) = ActiveSteps
              /\ Elems(sel.skip_elems) = Elems(all_norm_elems) \ ActiveSteps

\* a text processed under a dictionary built with digit both skipped and added
C5_Witness ==
    /\ sel.via = "build_norm_step_dict" /\ sel.base = "DEFAULT"
    /\ IsIn("digit", sel.skip) /\ IsIn("digit", sel.add) /\ IsIn("repair-xml", sel.skip)
    /\ ActiveSteps = (Elems(default_norm_elems) \ {"repair-xml"}) \cup {"digit"}
    /\ op = "norm_clean_string" /\ s_out = <<48, 38, 97, 109, 112, 59, 97, 109, 112, 59>>

\* C6: a resolution with a step named in both add and skip has logged exactly
\* one conflict warning, a resolution with disjoint lists none
C6_OneConflictWarning ==
    sel.via # "none" =>
        LET conflict == \E n \in DOMAIN sel.add : IsIn(sel.add[n], sel.skip)
            warnings == {n \in DOMAIN log : log[n].kind = "add and skip"}
        IN  Cardinality(warnings) = IF conflict THEN 1 ELSE 0

\* C7: a resolution with a name that is no step in its lists has logged an
\* error and no text is processed under it
C7_UnknownRejected ==
    ( /\ sel.via # "none"
      /\ \E n \in DOMAIN (sel.add \o sel.skip) :
            ~IsIn((sel.add \o sel.skip)[n], all_norm_elems) )
    => /\ \E n \in DOMAIN log : log[n].kind = "error"
       /\ ht.lines = 0

(***************************************************************************)
(* Hangul: hangul_jamo_triple_to_syllable on every triple of modern jamos, *)
(* and normalize_hangul on the triples between other jamos.                *)
(***************************************************************************)
\* the strings of jamos: a leading and a vowel jamo, with or without a
\* trailing jamo, after nothing or a leading jamo, before nothing, a trailing
\* jamo or a further leading and vowel jamo, and the triples of the first
\* and last modern jamos and the jamos next to them in the block
HangulStrings ==
    { before \o <<leading, vowel>> \o trailing \o after :
        before \in {<<>>, <<\h1100>>},
        leading \in \h1100..\h1112,
        vowel \in \h1161..\h1175,
        trailing \in {<<>>} \cup {<<c>> : c \in \h11A8..\h11C2},
        after \in {<<>>, <<\h11A8>>, <<\h1100, \h1161>>} }
    \cup { <<leading, vowel, trailing>> :
             leading \in {\h1100, \h1112, \h1113, \h115F},
             vowel \in {\h1160, \h1161, \h1175, \h1176},
             trailing \in {\h11A7, \h11A8, \h11C2, \h11C3} }

\* the client holds the string it is about to pass
InitHangul == Wildebeest /\ s_in \in HangulStrings

NextHangul ==
    \/ /\ op = "__init__"
       /\ Len(s_in) \in {2, 3}
       /\ HangulJamoTripleToSyllable(<<s_in[1]>>, <<s_in[2]>>, SubSeq(s_in, 3, Len(s_in)))
    \/ /\ op = "__init__"
       /\ CallPass("normalize_hangul", s_in)

SpecHangul == InitHangul /\ [][NextHangul]_vars

\* C9: the syllable of a triple is 0xAC00 + 588 * lead + 28 * vowel + trail,
\* lies in U+AC00..U+D7A3 and determines its triple; normalize_hangul leaves
\* no leading jamo before a vowel jamo and no syllable without trailing jamo
\* before a trailing jamo, and its result spelled out in jamos is its input
C9_HangulComposition ==
    LET Jamos(c) ==
            IF c \in \hAC00..\hD7A3
            THEN <<\h1100 + (c - \hAC00) \div 588, \h1161 + ((c - \hAC00) % 588) \div 28>>
                 \o (IF (c - \hAC00) % 28 = 0 THEN <<>> ELSE <<\h11A7 + ((c - \hAC00) % 28)>>)
            ELSE <<c>>
    IN  /\ op = "hangul_jamo_triple_to_syllable" =>
              /\ s_out = << \hAC00 + (s_in[1] - \h1100) * 588 + (s_in[2] - \h1161) * 28
                            + (IF Len(s_in) = 2 THEN 0 ELSE s_in[3] - \h11A7) >>
              /\ s_out[1] \in \hAC00..\hD7A3
              /\ Jamos(s_out[1]) = s_in
        /\ op = "normalize_hangul" =>
              /\ Flatten([i \in DOMAIN s_out |-> Jamos(s_out[i])]) = s_in
              /\ \A i \in 1..(Len(s_out) - 1) :
                    /\ ~(s_out[i] \in \h1100..\h1112 /\ s_out[i + 1] \in \h1161..\h1175)
                    /\ ~( /\ s_out[i] \in \hAC00..\hD7A3 /\ (s_out[i] - \hAC00) % 28 = 0
                          /\ s_out[i + 1] \in \h11A8..\h11C2 )

\* the last triple composed to the last syllable, and a pair that has taken
\* the trailing jamo that follows it
C9_Witness ==
    \/ /\ op = "hangul_jamo_triple_to_syllable"
       /\ s_in = <<\h1112, \h1175, \h11C2>> /\ s_out = <<\hD7A3>>
    \/ /\ op = "normalize_hangul"
       /\ s_in = <<\h1100, \h1100, \h1161, \h11A8>> /\ s_out = <<\h1100, \hAC01>>

(***************************************************************************)
(* Clean ASCII: strings of ASCII letters, digits, spaces and basic         *)
(* punctuation, passed to each pass and to norm_clean_string.              *)
(***************************************************************************)
MaxPieces == 2

AsciiPieces ==
    { <<38, 97, 109, 112, 59>>,            \* &amp;
      <<97, 109, 112, 59>>,                \* amp;
      <<38, 35, 52, 49, 59>>,              \* &#41;
      <<108, 116, 59>>,                    \* lt;
      <<37, 50, 53, 67, 51>>,              \* %25C3
      <<37, 50, 53, 65, 66>>,              \* %25AB
      <<97, 32, 98>>,                      \* a b
      <<45, 46, 95, 47, 35>>,              \* -._/#
      <<32, 32>>,                          \* two spaces
      <<73, 73, 46, 46, 46>> }             \* II...

\* the concatenations of at most n pieces
RECURSIVE AsciiStrings(_)
AsciiStrings(n) ==
    IF n = 0 THEN {<<>>}
    ELSE AsciiStrings(n - 1)
             \cup {s \o piece : s \in AsciiStrings(n - 1), piece \in AsciiPieces}

\* the functions norm_clean_string passes to ncs_group
PassFunctions == {Stages[n][2] : n \in DOMAIN Stages}

\* the client holds the string it is about to pass
InitAscii == Wildebeest /\ s_in \in AsciiStrings(MaxPieces)

NextAscii ==
    \/ \E group_function \in PassFunctions :
          op = "__init__" /\ CallPass(group_function, s_in)
    \/ \E base \in Bases :
          op = "__init__" /\ BuildNormStepDict(base, <<>>, <<>>)
    \/ \E lang_code \in {"", "fas"} :
          op \in {"__init__", "build_norm_step_dict"} /\ NormCleanString(s_in, lang_code)

SpecAscii == InitAscii /\ [][NextAscii]_vars

\* C8 as stated: every pass and norm_clean_string return a clean ASCII string
\* unchanged
C8_NoOpOnAscii ==
    op \in PassFunctions \cup {"norm_clean_string"} => s_out = s_in

\* C8: every pass but repair_xml and repair_url_escapes returns a clean ASCII
\* string unchanged, and so does norm_clean_string under every selection when
\* these two leave the string unchanged
C8_NoOpButRepairs ==
    /\ op \in PassFunctions \ {"repair_xml", "repair_url_escapes"} => s_out = s_in
    /\ ( /\ op = "norm_clean_string"
         /\ repair_xml(s_in) = s_in
         /\ repair_url_escapes(s_in) = s_in ) => s_out = s_in

\* &amp;%25C3 has passed the whole pipeline, repair_xml and repair_url_escapes
\* invoked on it, and is unchanged
C8_Witness ==
    /\ op = "norm_clean_string" /\ sel.via = "build_norm_step_dict" /\ sel.base = "ALL"
    /\ s_in = <<38, 97, 109, 112, 59, 37, 50, 53, 67, 51>>
    /\ \E n \in DOMAIN run : run[n].fn = "repair_xml" /\ run[n].invoked
    /\ \E n \in DOMAIN run : run[n].fn = "repair_url_escapes" /\ run[n].invoked
    /\ s_out = s_in

(***************************************************************************)
(* Digit coverage: a client normalizes, with the step 'digit' active, the  *)
(* unit made of the ten digits of one digit set.                           *)
(***************************************************************************)
\* a fresh instance, and the unit of the ten digit characters of one set
InitDigit ==
    Wildebeest /\ s_in \in {[d \in 1..10 |-> DigitBlocks[n] + d - 1] : n \in DOMAIN DigitBlocks}

\* the client builds a dictionary with 'digit' active, then normalizes the unit
SpecDigit ==
    /\ InitDigit
    /\ [][ \/ \E base \in Bases :
                BuildNormStepDict(base, <<>>, IF base = "ALL" THEN <<>> ELSE <<"digit">>)
           \/ \E lang_code \in {"", "fas"} :
                op = "build_norm_step_dict" /\ NormCleanString(s_in, lang_code) ]_vars

\* C11: norm_clean_string with the step 'digit' active maps the ten digits of
\* every digit set that map_digits_to_ascii handles to '0123456789'
C11_DigitCoverage ==
    (op = "norm_clean_string" /\ ~Skipped(ht, "digit")) =>
        s_out = <<48, 49, 50, 51, 52, 53, 54, 55, 56, 57>>

(***************************************************************************)
(* Encoding repair: a client normalizes units that hold surrogate-escaped  *)
(* bytes, alone or next to an anchor of the EncodingRepair table.          *)
(***************************************************************************)
MaxBytes == 2

\* U+DC93 (Windows-1252 left double quotation mark), U+DC81 (undefined in
\* Windows-1252), U+DCE9 (Latin-1 e-acute), the letter a, and the two
\* characters of an EncodingRepair source
InitRepair ==
    /\ Wildebeest
    /\ s_in \in UNION {[1..k -> {\hDC93, \hDC81, \hDCE9, 97, \h00C3, \h00A9}] : k \in 1..MaxBytes}

SpecRepair ==
    /\ InitRepair
    /\ [][ \/ \E base \in Bases :
                BuildNormStepDict(base, <<>>, IF base = "NONE" THEN <<"repair-encoding-errors">> ELSE <<>>)
           \/ \E lang_code \in {"", "fas"} :
                op = "build_norm_step_dict" /\ NormCleanString(s_in, lang_code) ]_vars

\* C12: with repair-encoding-errors active, the unit U+DC93 is normalized to
\* U+201C, and when the turn of del-surrogate comes the text holds no
\* surrogate-escaped byte to which init_mapping_dict assigns a character
C12_RepairBeforeDelete ==
    (op = "norm_clean_string" /\ ~Skipped(ht, "repair-encoding-errors")) =>
        /\ s_in = <<\hDC93>> => s_out = <<\h201C>>
        /\ \A n \in DOMAIN run :
              run[n].group = "del-surrogate" =>
                  \A i \in DOMAIN run[n].before :
                      InRange(run[n].before[i], \hDC80, \hDCFF) =>
                          mapping_dict[<<run[n].before[i]>>] = <<>>

(***************************************************************************)
(* Nukta repair: a client normalizes units of one Indic script made of a   *)
(* letter, vowel signs and nuktas; a test calls the legacy function.       *)
(***************************************************************************)
MaxMarks == 3

\* Devanagari ka, vowel signs aa and e, nukta; Bengali ka, vowel sign aa,
\* nukta; Lepcha ka, vowel sign aa, nukta; Kaithi ka, vowel sign aa, nukta
InitNukta ==
    /\ Wildebeest
    /\ s_in \in UNION {[1..k -> a] :
                         k \in 1..MaxMarks,
                         a \in { {\h0915, \h093E, \h0947, \h093C}, {\h0995, \h09BE, \h09BC},
                                 {\h1C00, \h1C26, \h1C37}, {\h1108D, \h110B0, \h110BA} }}

SpecNukta ==
    /\ InitNukta
    /\ [][ \/ \E base \in Bases :
                BuildNormStepDict(base, <<>>, IF base = "NONE" THEN <<"repair-combining">> ELSE <<>>)
           \/ op = "build_norm_step_dict" /\ NormCleanString(s_in, "")
           \/ /\ op = "__init__"
              /\ s_out' = normalize_devanagari_diacritics(s_in)
              /\ op' = "normalize_devanagari_diacritics"
              /\ UNCHANGED <<lv, look_alike, ht, sel, log, lang, s_in, run>> ]_vars

\* C13: after repair_combining_modifiers_with_nukta, run in the pipeline, no
\* vowel sign or virama is directly followed by the nukta of its script and
\* the characters other than nuktas are as they were, in their order; after
\* normalize_devanagari_diacritics no Devanagari vowel sign or virama is
\* directly followed by the Devanagari nukta
C13_NuktaFirst ==
    LET Rows == << <<\h093E, \h094D, \h093C>>, <<\h09BE, \h09CD, \h09BC>>,
                   <<\h1C26, \h1C2C, \h1C37>>, <<\h110B0, \h110B8, \h110BA>> >>
        OrderedIn(t, r) ==
            \A i \in 1..(Len(t) - 1) :
                ~(InRange(t[i], Rows[r][1], Rows[r][2]) /\ t[i + 1] = Rows[r][3])
        Ordered(t) == \A r \in DOMAIN Rows : OrderedIn(t, r)
        Others(t) == SelectSeq(t, LAMBDA c : c \notin NuktaCodePoints)
    IN  /\ op = "norm_clean_string" =>
              \A n \in DOMAIN run :
                  (run[n].group = "repair-combining" /\ run[n].invoked) =>
                      /\ Ordered(run[n].after)
                      /\ Others(run[n].after) = Others(run[n].before)
        /\ op = "normalize_devanagari_diacritics" => OrderedIn(s_out, 1)

\* C14: the output of repair_combining_modifiers_with_nukta never holds the
\* same nukta twice in a row
C14_OneNukta ==
    op = "norm_clean_string" =>
        \A n \in DOMAIN run :
            (run[n].group = "repair-combining" /\ run[n].invoked) =>
                \A i \in 1..(Len(run[n].after) - 1) :
                    ~(run[n].after[i] \in NuktaCodePoints /\ run[n].after[i + 1] = run[n].after[i])

(***************************************************************************)
(* Passes applied to their own output: a test calls one pass method on a   *)
(* string, on a fresh instance or after the instance has normalized the    *)
(* string with no step active (which leaves the string's vector in lv).    *)
(***************************************************************************)
\* the units of the pipeline, and: Devanagari ka, vowel signs aa and e, nukta;
\* %2525C3; &amp;amp;amp;; a Hangul jamo triple; control characters around a
InitTwice ==
    /\ Wildebeest
    /\ s_in \in Units \cup {ArabicUnit}
                \cup { <<\h0915, \h093E, \h0947, \h093C>>,
                       <<37, 50, 53, 50, 53, 67, 51>>,
                       <<38, 97, 109, 112, 59, 97, 109, 112, 59, 97, 109, 112, 59>>,
                       <<\h1100, \h1161, \h11A8>>,
                       <<9, 97, 13, 10>> }

SpecTwice ==
    /\ InitTwice
    /\ [][ \/ op = "__init__" /\ BuildNormStepDict("NONE", <<>>, <<>>)
           \/ op = "build_norm_step_dict" /\ NormCleanString(s_in, "")
           \/ \E group_function \in PassFunctions :
                op \in {"__init__", "norm_clean_string"} /\ CallPass(group_function, s_in) ]_vars

\* C15: a pass other than look-alike correction, applied to its own output,
\* returns that output unchanged
C15_Idempotence ==
    op \in PassFunctions \ {"correct_look_alikes"} =>
        GroupFunction(op, s_out, lv, look_alike).s = s_out

(***************************************************************************)
(* Loading the mapping tables.  A table file is the sequence of its lines, *)
(* a line the sequence of its characters with the line feed at its end;    *)
(* init_mapping_dict reads the files in its fixed order, after the         *)
(* built-in surrogate mappings.                                            *)
(***************************************************************************)
\* re.split(r'\t', line.rstrip())
tsv_list(line) ==
    LET RECURSIVE rstrip(_)
        rstrip(s) == IF s # <<>> /\ IsSpace(s[Len(s)])
                     THEN rstrip(SubSeq(s, 1, Len(s) - 1)) ELSE s
        RECURSIVE split(_, _)
        split(s, field) ==
            IF s = <<>> THEN <<field>>
            ELSE IF Head(s) = 9 THEN <<field>> \o split(Tail(s), <<>>)
            ELSE split(Tail(s), Append(field, Head(s)))
    IN  split(rstrip(line), <<>>)

\* the loop over the lines of one table file
LoadTable(d, lines) ==
    LET RECURSIVE Load(_, _)
        Load(x, line_number) ==
            IF line_number > Len(lines) THEN x
            ELSE Then(tsv_list(lines[line_number]),
                      LAMBDA l : Load(IF Len(l) >= 2 /\ line_number >= 2
                                      THEN set_mapping_dict(x, l[1], l[2]) ELSE x,
                                      line_number + 1))
    IN  Load(d, 1)

\* init_mapping_dict with the table files `files', in their load order
init_mapping_dict(files) ==
    LET RECURSIVE Tables(_, _)
        Tables(d, n) == IF n > Len(files) THEN d ELSE Tables(LoadTable(d, files[n]), n + 1)
    IN  Tables(LoadRecords(<<>>, SurrogateRecords, 1, Len(SurrogateRecords)), 1)

MaxRows == 2

\* Two table files, each the header line and up to MaxRows of the lines
\* k<TAB>x, k<TAB>y, k<TAB>, k<TAB><TAB>n, k, k<TAB><SPACE>
InitTable ==
    /\ Wildebeest
    /\ s_in \in [1..2 -> {<<<<77, 9, 77, 10>>>> \o rows :
                            rows \in UNION {[1..r -> { <<107, 9, 120, 10>>, <<107, 9, 121, 10>>,
                                                       <<107, 9, 10>>, <<107, 9, 9, 110, 10>>,
                                                       <<107, 10>>, <<107, 9, 32, 10>> }] :
                                              r \in 0..MaxRows}}]

SpecTable ==
    /\ InitTable
    /\ [][ /\ op = "__init__"
           /\ s_out' = init_mapping_dict(s_in)
           /\ op' = "init_mapping_dict"
           /\ UNCHANGED <<lv, look_alike, ht, sel, log, lang, s_in, run>> ]_vars

C17_RowsAsWritten ==
    op = "init_mapping_dict" =>
        LET RECURSIVE split(_, _)
            split(s, field) ==
                IF s = <<>> THEN <<field>>
                ELSE IF Head(s) = 9 THEN <<field>> \o split(Tail(s), <<>>)
                ELSE split(Tail(s), Append(field, Head(s)))
            Written(line) ==
                split(IF line # <<>> /\ line[Len(line)] = 10
                      THEN SubSeq(line, 1, Len(line) - 1) ELSE line, <<>>)
            Places == UNION {{<<f, n>> : n \in 2..Len(s_in[f])} : f \in DOMAIN s_in}
            Rows ==
                {<<p[1], p[2], Written(s_in[p[1]][p[2]])[1], Written(s_in[p[1]][p[2]])[2]>> :
                     p \in {q \in Places : Len(Written(s_in[q[1]][q[2]])) >= 2}}
            Builtin == {SurrogateRecords[n].source : n \in DOMAIN SurrogateRecords}
            Later(a, b) == a[1] > b[1] \/ (a[1] = b[1] /\ a[2] > b[2])
        IN  /\ DOMAIN s_out = Builtin \cup {r[3] : r \in Rows}
            /\ \A r \in Rows :
                  (\A q \in Rows : q[3] = r[3] => ~Later(q, r)) => s_out[r[3]] = r[4]
(***************************************************************************)
(* Look-alike correction of tokens: wb.load_look_alike_file() and then     *)
(* wb.correct_look_alikes(s), on tokens of Latin, Cyrillic and Greek       *)
(* characters with and without look-alikes, on URLs of both patterns of    *)
(* is_mixed_script_url, on Greek words with a Latin letter, and on a token  *)
(* next to another, one-letter, token.                                     *)
(***************************************************************************)
MaxToken == 4

\* the strings are lines: none holds a line feed
InitLook ==
    /\ Wildebeest
    /\ LET LookTokens == UNION {[1..n -> {97, 98, \h0430, \h0431, \h0391}] : n \in 1..MaxToken}
           LookUrls ==
               { <<97, 46, 117, 97, 47, \h0430>>,                \* a.ua/ Cyrillic a
                 <<98, 46, 117, 97, 47, \h0431>>,                \* b.ua/ Cyrillic be
                 <<112, 46, 117, 97, 47, \h0440, \h0443>>,       \* p.ua/ Cyrillic er, u
                 <<\h0430, \h0443, 46, 117, 97>>,                \* Cyrillic a, u .ua
                 <<\h0431, 46, 117, 97>> }                       \* Cyrillic be .ua
           GreekWords ==
               { <<65, \h03B2, \h03B3>>,                        \* A, beta, gamma
                 <<\h03B2, 73, \h03B3, \h03B1>>,                \* beta, I, gamma, alpha
                 <<\h0391, 65>> }                                \* Alpha, A
           Short == {u \in LookTokens : Len(u) <= 2}
       IN  s_in \in LookTokens \cup LookUrls \cup GreekWords
                    \cup {<<98, 32>> \o t : t \in Short}
                    \cup {<<32>> \o t \o <<32, 98>> : t \in Short}

SpecLook ==
    /\ InitLook
    /\ [][ \/ /\ op = "__init__"
              /\ look_alike' = [look_alike EXCEPT !.map = load_look_alike_file]
              /\ op' = "load_look_alike_file"
              /\ UNCHANGED <<lv, ht, sel, log, lang, s_in, s_out, run>>
           \/ /\ op \in {"__init__", "load_look_alike_file"}
              /\ CallPass("correct_look_alikes", s_in) ]_vars
\* the whitespace-delimited tokens of s, as pairs of the index of their first
\* and of their last character
TokenRuns(s) ==
    {r \in (1..Len(s)) \X (1..Len(s)) :
        /\ r[1] <= r[2]
        /\ \A i \in r[1]..r[2] : ~IsSpace(s[i])
        /\ r[1] = 1 \/ IsSpace(s[r[1] - 1])
        /\ r[2] = Len(s) \/ IsSpace(s[r[2] + 1])}

\* the condition of rule (a) for retargeting token t to script target: two of
\* the three scripts are present, every character of script source has a
\* look-alike in target, and not every character of target has one in source
RuleA(la, t, source, target) ==
    /\ NScripts(t) >= 2
    /\ \A i \in 1..Len(t) :
          char_script(t[i]) = source => <<source, target, t[i]>> \in DOMAIN la.map
    /\ \E i \in 1..Len(t) :
          char_script(t[i]) = target /\ <<target, source, t[i]>> \notin DOMAIN la.map

C20_UrlUnchanged ==
    op = "correct_look_alikes" /\ TokenRuns(s_in) = {<<1, Len(s_in)>>}
        /\ is_mixed_script_url(s_in)
        => s_out = s_in
\* C21: in a token whose characters are Greek but for Latin characters that
\* each have a Greek look-alike, every such Latin character comes out as its
\* Greek look-alike and every Greek character comes out unchanged
C21_TowardGreek ==
    op = "correct_look_alikes" =>
        \A r \in TokenRuns(s_in) :
            ( /\ \A i \in r[1]..r[2] :
                    \/ char_script(s_in[i]) = "Greek"
                    \/ /\ char_script(s_in[i]) = "Latin"
                       /\ <<"Latin", "Greek", s_in[i]>> \in DOMAIN look_alike.map
              /\ \E i \in r[1]..r[2] : char_script(s_in[i]) = "Greek"
              /\ \E i \in r[1]..r[2] : char_script(s_in[i]) = "Latin" )
            => /\ Len(s_out) = Len(s_in)
               /\ \A i \in r[1]..r[2] :
                     s_out[i] = IF char_script(s_in[i]) = "Latin"
                                THEN look_alike.map[<<"Latin", "Greek", s_in[i]>>]
                                ELSE s_in[i]
(***************************************************************************)
(* Shared state, independence of the units and the counters of ht, over    *)
(* the calls of Spec.                                                      *)
(***************************************************************************)
\* C22: after initialization no call of norm_clean_string and no pass writes
\* state of the Wildebeest object: the vector lv and the four look-alike
\* dictionaries stay as they are (the mapping and classification tables are
\* never written); a call writes ht only
C22_SharedStateReadOnly ==
    [][op' \in {"norm_clean_string", "norm_clean_lines", "map_digits_to_ascii"}
          => lv' = lv /\ look_alike' = look_alike]_vars

\* C23: the text a call of norm_clean_string returns is the text a new
\* instance with the same look-alike table returns for the same unit, SKIP
\* flags and language code on a dictionary without statistics
C23_NoCrossUnitDependency ==
    /\ op = "norm_clean_string" =>
          s_out = norm_clean_string(s_in, [EmptyHt EXCEPT !.skip = ht.skip],
                                    [EmptyLookAlike EXCEPT !.map = look_alike.map],
                                    lang, 0).s
    /\ op = "norm_clean_lines" =>
          s_out = norm_clean_string(RStripLine(s_in), [EmptyHt EXCEPT !.skip = ht.skip],
                                    [EmptyLookAlike EXCEPT !.map = look_alike.map],
                                    lang, 1).s \o <<10>>

\* the second unit of a dictionary, changed like the first, after a call
\* that has left statistics and a vector behind
C23_Witness ==
    /\ op \in {"norm_clean_string", "norm_clean_lines"}
    /\ ht.lines = 2
    /\ ht.count_all = 2
    /\ \E g \in GroupNames : ht.count[g] = 2

\* C30: for every group COUNT <= CALL <= NUMBER-OF-LINES and COUNT-ALL <=
\* NUMBER-OF-LINES, every call adds one to NUMBER-OF-LINES, which starts at
\* zero, and no call changes a SKIP entry
C30_CounterInvariant ==
    /\ [](/\ \A g \in GroupNames :
                ht.count[g] <= ht.call[g] /\ ht.call[g] <= ht.lines
          /\ ht.count_all <= ht.lines
          /\ (op \in {"__init__", "build_norm_step_dict", "main"} => ht.lines = 0))
    /\ [][op' \in {"norm_clean_string", "norm_clean_lines"}
             => ht'.lines = ht.lines + 1 /\ ht'.skip = ht.skip]_vars

\* two calls on one dictionary of which one has changed its unit, with a
\* group that has changed a unit and a group called without a change
C30_Witness ==
    /\ ht.lines = 2
    /\ ht.count_all = 1
    /\ \E g \in GroupNames : ht.count[g] = 1
    /\ \E g \in GroupNames : ht.count[g] < ht.call[g]
(***************************************************************************)
(* Statistics of a run of main over many lines: lines with a ligature,     *)
(* which the ligature and width passes change, and at most MaxQuiet lines  *)
(* that no pass changes (p, Cyrillic a, y), in any order, up to MaxUnits   *)
(* lines; norm_clean_lines passes the line number as location id.          *)
(***************************************************************************)
MaxUnits == 22

MaxQuiet == 1

SpecStats ==
    /\ Init
    /\ [][ \/ \E args \in {a \in CommandLines : a.lc = "" /\ a.skip = <<>>} : Main(args)
           \/ \E line \in {<<\hFB01, \hFF21, 10>>, <<112, \h0430, 121, 10>>} :
                 /\ sel.via = "main"
                 /\ ht.lines < MaxUnits
                 /\ line[1] = 112 => ht.lines - ht.count_all < MaxQuiet
                 /\ \E r \in {norm_clean_string(RStripLine(line), ht, look_alike, lang,
                                                ht.lines + 1)} :
                       /\ lv' = r.lv
                       /\ ht' = r.ht
                       /\ look_alike' = r.la
                       /\ s_out' = r.s \o <<10>>
                       /\ run' = r.run
                 /\ s_in' = line
                 /\ op' = "norm_clean_lines"
                 /\ UNCHANGED <<sel, log, lang>> ]_vars

\* C24: COUNT-g goes up by one exactly in the calls in which g has been
\* invoked and has returned another string than it was given; the examples
\* COUNT-g-k are those with 1 <= k <= min(COUNT-g, 20), one location id
\* each; the k-th change of g writes the location id of its unit to example
\* k if k <= 20, and no call removes or replaces an example
C24_StatisticsRecording ==
    /\ [](\A g \in GroupNames :
             /\ {x[2] : x \in {y \in ht.loc : y[1] = g}}
                  = 1..(IF ht.count[g] < 20 THEN ht.count[g] ELSE 20)
             /\ \A x, y \in ht.loc : (x[1] = g /\ y[1] = g /\ x[2] = y[2]) => x = y)
    /\ [][op' = "norm_clean_lines" =>
             /\ ht.loc \subseteq ht'.loc
             /\ \A g \in GroupNames :
                   LET changed == \E n \in DOMAIN run' :
                                     /\ run'[n].group = g
                                     /\ run'[n].invoked
                                     /\ run'[n].after # run'[n].before
                   IN  /\ ht'.count[g] = ht.count[g] + (IF changed THEN 1 ELSE 0)
                       /\ (changed /\ ht'.count[g] <= 20)
                             => <<g, ht'.count[g], ht'.lines>> \in ht'.loc
                       /\ (~changed \/ ht'.count[g] > 20)
                             => {y \in ht'.loc : y[1] = g} = {y \in ht.loc : y[1] = g}]_vars

\* the ligature pass has changed 21 of 22 lines and has 20 examples, the
\* last of them for a line after the line that no pass has changed
C24_Witness ==
    /\ op = "norm_clean_lines"
    /\ ht.lines = 22
    /\ ht.count["ligatures"] = 21
    /\ Cardinality({y \in ht.loc : y[1] = "ligatures"}) = 20
    /\ \E y \in ht.loc : y[1] = "ligatures" /\ y[2] = 20 /\ y[3] = 21
(***************************************************************************)
(* Control characters and the length of the look-alike output, over the    *)
(* direct calls of the passes in SpecTwice.                                *)
(***************************************************************************)
\* C25: delete_control_characters returns its argument without any C0
\* control, U+007F or C1 control other than tab and line feed, with all its
\* tabs and line feeds, and with every other character that is no variation
\* selector
C25_ControlCharactersDeleted ==
    op = "delete_control_characters" =>
        LET IsControl(c) == InRange(c, \h0000, \h001F) \/ InRange(c, \h007F, \h009F)
            IsSelector(c) == InRange(c, \hFE00, \hFE0F) \/ InRange(c, \hE0100, \hE01EF)
            Kept(c) == c \in {9, 10} \/ (~IsControl(c) /\ ~IsSelector(c))
        IN  /\ \A i \in DOMAIN s_out : IsControl(s_out[i]) => s_out[i] \in {9, 10}
            /\ SelectSeq(s_out, Kept) = SelectSeq(s_in, Kept)

\* C29: correct_look_alikes returns a string that is not shorter than its
\* argument, each character of the argument standing in it unchanged or as its
\* look-alike, in order, possibly after an inserted space
C29_EveryCharacterEmitted ==
    op = "correct_look_alikes" =>
        /\ Len(s_out) >= Len(s_in)
        /\ \E f \in [DOMAIN s_in -> DOMAIN s_out] :
              /\ \A i, j \in DOMAIN s_in : i < j => f[i] < f[j]
              /\ \A i \in DOMAIN s_in :
                    \/ s_out[f[i]] = s_in[i]
                    \/ \E k \in DOMAIN look_alike.map :
                          k[3] = s_in[i] /\ look_alike.map[k] = s_out[f[i]]
              /\ \A n \in DOMAIN s_out : (\A i \in DOMAIN s_in : f[i] # n) => s_out[n] = 32
(***************************************************************************)
(* The punctuation passes on single characters: each of the six functions  *)
(* called on a one-character string of the blocks their patterns name.     *)
(***************************************************************************)
InitPunct ==
    /\ Wildebeest
    /\ s_in \in {<<c>> : c \in (\h2010..\h2057) \cup (\h2212..\h2219) \cup (\h3001..\h3011)
                               \cup {\h00AB, \h00BB, \h060C, \h0640, \h06D4, \h0340, \h037E,
                                     \h0387, \h0F0C, \h2223, \h2236, \h22C5, \h2500, \h2501,
                                     \h2E3A, \h2E3B, 45, 46}}

SpecPunct ==
    /\ InitPunct
    /\ [][\E group_function \in {"normalize_punctuation", "normalize_arabic_punctuation",
                                 "normalize_cjk_punctuation", "normalize_greek_punctuation",
                                 "normalize_misc_f_punctuation", "normalize_dash_punctuation"} :
             op = "__init__" /\ CallPass(group_function, s_in)]_vars

\* C26: a character that one punctuation pass rewrites is left as it is by
\* each of the other five punctuation passes
C26_PunctuationDisjoint ==
    (op # "__init__" /\ s_out # s_in) =>
        \A group_function \in {"normalize_punctuation", "normalize_arabic_punctuation",
                               "normalize_cjk_punctuation", "normalize_greek_punctuation",
                               "normalize_misc_f_punctuation", "normalize_dash_punctuation"}
                              \ {op} :
            GroupFunction(group_function, s_in, lv, look_alike).s = s_in
(***************************************************************************)
(* normalize_hangul and the assert statements, over the strings of         *)
(* SpecHangul.                                                             *)
(***************************************************************************)
\* C27: normalize_hangul raises no AssertionError, and its result with every
\* syllable spelled out as its modern leading, vowel and trailing jamos is
\* its argument: each jamo that is not part of such a sequence, modern or
\* not, stands unchanged in the result
C27_HangulNeverRaises ==
    op = "normalize_hangul" =>
        LET Spelled(c) ==
                IF c \in \hAC00..\hD7A3
                THEN <<\h1100 + (c - \hAC00) \div 588,
                       \h1161 + ((c - \hAC00) % 588) \div 28>>
                     \o (IF (c - \hAC00) % 28 = 0 THEN <<>>
                         ELSE <<\h11A7 + ((c - \hAC00) % 28)>>)
                ELSE <<c>>
            Modern(c) == \/ InRange(c, \h1100, \h1112) \/ InRange(c, \h1161, \h1175)
                         \/ InRange(c, \h11A8, \h11C2)
        IN  /\ \A i \in DOMAIN s_out : s_out[i] # -1
            /\ Flatten([i \in DOMAIN s_out |-> Spelled(s_out[i])]) = s_in
            /\ SelectSeq(s_out, LAMBDA c : ~Modern(c) /\ c \notin \hAC00..\hD7A3)
                  = SelectSeq(s_in, LAMBDA c : ~Modern(c))

\* the jamos next to the modern ranges are returned as they are, and the
\* last modern leading and vowel jamo before a jamo past the last modern
\* trailing jamo are composed without it
C27_Witness ==
    /\ op = "normalize_hangul"
    /\ \/ s_in = <<\h1113, \h1176, \h11C3>> /\ s_out = s_in
       \/ s_in = <<\h1112, \h1175, \h11C3>> /\ s_out = <<\hD788, \h11C3>>

\* ---------------------------------------------------------------------------
\* tokenize_mixed_script_tokens applied to one token: every token of up to
\* MaxSplit characters over a Latin, a Cyrillic and a Greek letter, a digit
\* and a full stop, and some longer tokens with two or more transitions
MaxSplit == 6

InitSplit ==
    /\ Wildebeest
    /\ LET Letters == {97, \h0436, \h03B2, 49, 46}
           Long == { <<97, 97, 97, \h0436, \h0436, \h0436, \h03B2, \h03B2, \h03B2>>,
                     <<97, 97, 97, \h0436, \h0436, 97, 97, 97, 97>>,
                     <<97, 46, 97, \h0436, \h0436, 45, \h03B2, \h03B2, \h03B2>>,
                     <<97, 97, 97, 47, \h0436, \h0436, \h0436, 97, 97, 97>>,
                     <<\h03B2, \h03B2, \h03B2, 97, 97, 97, 95, \h0436, \h0436, \h0436>> }
       IN  s_in \in UNION {[1..n -> Letters] : n \in 0..MaxSplit} \cup Long

SpecSplit ==
    /\ InitSplit
    /\ [][/\ op = "__init__"
          /\ s_out' = tokenize_mixed_script_tokens(s_in)
          /\ op' = "tokenize_mixed_script_tokens"
          /\ UNCHANGED <<lv, look_alike, ht, sel, log, lang, s_in, run>>]_vars

\* C28: tokenize_mixed_script_tokens only inserts spaces, never reads past the
\* end of the token, and puts a space only between two characters of two
\* different scripts of Latin, Greek and Cyrillic, the first of them no
\* . / _ - and the one after the second of the second's script, so that
\* every piece between two spaces has at least three characters
C28_SplitAtScriptTransition ==
    op = "tokenize_mixed_script_tokens" =>
        LET NotSpace(c) == c # 32
            spaces == {n \in 1..Len(s_out) : s_out[n] = 32}
            Before(n) == Cardinality({m \in 1..(n - 1) : s_out[m] # 32})
            cuts == {0, Len(s_in)} \cup {Before(n) : n \in spaces}
        IN  /\ \A n \in 1..Len(s_out) : s_out[n] # -1
            /\ SelectSeq(s_out, NotSpace) = s_in
            /\ \A n, m \in spaces : Before(n) = Before(m) => n = m
            /\ \A n \in spaces :
                   LET p == Before(n)
                   IN  /\ p >= 1
                       /\ p + 2 <= Len(s_in)
                       /\ IsLookAlikeScript(char_script(s_in[p]))
                       /\ IsLookAlikeScript(char_script(s_in[p + 1]))
                       /\ char_script(s_in[p]) # char_script(s_in[p + 1])
                       /\ s_in[p] \notin {46, 47, 95, 45}
                       /\ char_script(s_in[p + 2]) = char_script(s_in[p + 1])
            /\ spaces # {} => \A a, b \in cuts : a < b => b - a >= 3

C28_Witness ==
    /\ op = "tokenize_mixed_script_tokens"
    /\ s_in = <<97, 97, 97, \h0436, \h0436, \h0436, \h03B2, \h03B2, \h03B2>>
    /\ s_out = <<97, 97, 97, 32, \h0436, \h0436, \h0436, 32, \h03B2, \h03B2, \h03B2>>

====
